---- MODULE Spec2Model ----
(***************************************************************************)
(* Life cycle observer orchestration of @loopback/core:                    *)
(* LifeCycleObserverRegistry (packages/core/src/lifecycle-registry.ts),    *)
(* ContextWithLifeCycle, Application (packages/core/src/application.ts)    *)
(* and the Phase of loopback-phase.                                        *)
(*                                                                         *)
(* bindings       the observer bindings found in the context, in           *)
(*                registration order; the key of a binding is its index    *)
(* groupsByOrder  the configured order of the group names                  *)
(* options        the LifeCycleObserverOptions of the registry             *)
(* calls          the calls of start()/stop() the caller has yet to make   *)
(* passes         the invocations of start()/stop() made so far; a pass    *)
(*                holds its events, its groups, its position in the loops  *)
(*                of notifyGroups and notifyObserverGroup, the status hs   *)
(*                of notifyObserver per event and binding, and the state   *)
(*                of the promise it returned                               *)
(* events         the events array to which a recording observer of the    *)
(*                test suite pushes                                        *)
(* returned       the value the last getObserverGroupsByOrder() call of    *)
(*                the caller returned, and those its earlier calls did     *)
(*                                                                         *)
(* phase          a Phase (loopback-phase): its options, its three arrays  *)
(*                of handlers, and the state of its run()                  *)
(* called         the array to which the mock handlers of the Phase tests  *)
(*                push their name, and name_done on completion             *)
(* registered     the methods before, use and after of the Phase in the    *)
(*                order in which the caller first called them (a history)  *)
(* app            an Application: its bindings, the lifeCycleObservers     *)
(*                arrays of its components, and the state of the current   *)
(*                start() or stop() call                                   *)
(* appLog         the start and stop calls made on the servers and on the  *)
(*                components' observers since the last start() or stop()   *)
(*                of the application, and their completions                *)
(* phaseList      a PhaseList: the array _phases and the map _phaseMap     *)
(* listCall       the last call made on the PhaseList: the method, its     *)
(*                arguments, whether it returned or threw, and its value   *)
(*                                                                         *)
(* Every `await` of the code is a suspension point; the code between two   *)
(* suspension points is one atomic action.  The context resolves a binding *)
(* and an observer settles a hook at any later time, in any order, and     *)
(* either may fail.                                                        *)
(*                                                                         *)
(* Spec      one call, observers that record nothing, up to MaxObservers   *)
(* SpecTrace up to MaxCalls calls, the recording observers of the tests    *)
(* SpecSort  getObserverGroupsByOrder() on up to MaxSortBindings bindings  *)
(*           of every kind of tagging, under every order of SortOrders     *)
(* SpecOrder setGroupsByOrder between the calls                            *)
(* SpecDoc   the three observers of the documented example, one start()    *)
(* SpecLive  Spec with every pending resolution and hook settling          *)
(* SpecCtx   ContextWithLifeCycle: the same bindings notified one by one   *)
(* SpecPhase a Phase with up to MaxHandlers handlers per array, run once   *)
(* SpecApp   an Application with any of the bindings of AppBindings, up to *)
(*           MaxAppCalls calls of start() and stop()                       *)
(* SpecFlight one pass during which the order is configured and observers *)
(*           are bound                                                     *)
(* SpecOverlap two calls, the second possibly a stop() made while the      *)
(*           start() pass is in flight                                     *)
(* SpecList  a PhaseList, up to MaxListCalls calls of add, addAt,          *)
(*           addAfter, addBefore and remove                                *)
(***************************************************************************)
EXTENDS Integers, Sequences, FiniteSets, TLC

VARIABLES bindings, groupsByOrder, options, calls, passes, events, returned,
          phase, called, registered, app, appLog, phaseList, listCall

registryVars == <<bindings, groupsByOrder, options, calls, passes, events, returned>>

phaseVars == <<phase, called, registered>>

appVars == <<app, appLog>>

listVars == <<phaseList, listCall>>

\* the variables that no operation of the registry touches
otherVars == <<phaseVars, appVars, listVars>>

vars == <<registryVars, phaseVars, appVars, listVars>>

(* ------------------------------ bounds --------------------------------- *)

MaxObservers == 3

MaxCalls == 2

MaxSortBindings == 3

MaxGets == 2

MaxHandlers == 2

MaxAppCalls == 2

MaxAppObservers == 2

MaxOverlapObservers == 2

MaxListCalls == 3

MaxAddArgs == 2

(* ------------------------- program constants --------------------------- *)

StartEvents == <<"preStart", "start", "postStart">>

StopEvents == <<"preStop", "stop", "postStop">>

lifeCycleMethods == {"preStart", "start", "postStart", "preStop", "stop", "postStop"}

DefaultGroupsByOrder == <<"server">>

(* ------------------------------ helpers -------------------------------- *)

\* Array.prototype.indexOf: 0-based index of the first occurrence, or -1
IndexOf(s, x) ==
    IF \E i \in 1..Len(s) : s[i] = x
    THEN (CHOOSE i \in 1..Len(s) : s[i] = x /\ \A j \in 1..(i - 1) : s[j] # x) - 1
    ELSE -1

\* Array.prototype.reverse
Reverse(s) == [i \in 1..Len(s) |-> s[Len(s) + 1 - i]]

RECURSIVE SelectIdx(_, _, _)
\* the indexes i of 1..n (ascending) for which Test[i] holds
SelectIdx(n, Test, i) ==
    IF i > n THEN <<>>
    ELSE (IF Test[i] THEN <<i>> ELSE <<>>) \o SelectIdx(n, Test, i + 1)

RECURSIVE Flatten(_)
Flatten(ss) == IF ss = <<>> THEN <<>> ELSE Head(ss) \o Flatten(Tail(ss))

(* --------------------------- group sorting ----------------------------- *)

\* getObserverGroup without the fallback to a tag that matches a group
getObserverGroupNoFallback(b, order) == b.group

\* getObserverGroup with the fallback tried before the explicit group tag
getObserverGroupTagFirst(b, order) ==
    IF \E i \in 1..Len(order) : order[i] \in b.tags
    THEN order[CHOOSE i \in 1..Len(order) :
                  /\ order[i] \in b.tags
                  /\ \A j \in 1..(i - 1) : order[j] \notin b.tags]
    ELSE b.group

\* getObserverGroup: explicit group tag, else the first group of the
\* configured order that the binding carries as a tag, else ''
getObserverGroup(b, order) ==
    IF b.group # "" THEN b.group
    ELSE IF \E i \in 1..Len(order) : order[i] \in b.tags
         THEN order[CHOOSE i \in 1..Len(order) :
                       /\ order[i] \in b.tags
                       /\ \A j \in 1..(i - 1) : order[j] \notin b.tags]
         ELSE ""

\* groupMap with unshift in place of push: members in reverse order
groupMapUnshift(bs, order) ==
    LET grp(i) == getObserverGroup(bs[i], order)
        first == SelectIdx(Len(bs),
                     [i \in 1..Len(bs) |-> \A j \in 1..(i - 1) : grp(j) # grp(i)], 1)
    IN [n \in 1..Len(first) |->
          [group    |-> grp(first[n]),
           bindings |-> Reverse(SelectIdx(Len(bs),
                           [i \in 1..Len(bs) |-> grp(i) = grp(first[n])], 1))]]

\* groupMap with groupMap.set(group, [binding]) for every binding: a group
\* keeps only the last binding seen
groupMapOverwrite(bs, order) ==
    LET grp(i) == getObserverGroup(bs[i], order)
        first == SelectIdx(Len(bs),
                     [i \in 1..Len(bs) |-> \A j \in 1..(i - 1) : grp(j) # grp(i)], 1)
    IN [n \in 1..Len(first) |->
          [group    |-> grp(first[n]),
           bindings |-> SelectIdx(Len(bs),
                           [i \in 1..Len(bs) |->
                               /\ grp(i) = grp(first[n])
                               /\ \A j \in (i + 1)..Len(bs) : grp(j) # grp(i)], 1)]]

\* the Map of sortObserverBindingsByGroup, as the entries() sequence:
\* groups in first-seen order, members in registration order
groupMap(bs, order) ==
    LET grp(i) == getObserverGroup(bs[i], order)
        first == SelectIdx(Len(bs),
                     [i \in 1..Len(bs) |-> \A j \in 1..(i - 1) : grp(j) # grp(i)], 1)
    IN [n \in 1..Len(first) |->
          [group    |-> grp(first[n]),
           bindings |-> SelectIdx(Len(bs),
                           [i \in 1..Len(bs) |-> grp(i) = grp(first[n])], 1)]]

\* the groups left in the first-seen order of the Map
sortByIndexUnsorted(groups, order) == groups

\* a sort that puts the groups absent from the order after the others
sortByIndexAbsentLast(groups, order) ==
    Flatten([n \in 1..(Len(order) + 1) |->
               SelectSeq(groups, LAMBDA g :
                   IndexOf(order, g.group) = IF n = Len(order) + 1 THEN -1 ELSE n - 1)])

\* groups.sort((g1, g2) => indexOf(g1.group) - indexOf(g2.group)): a stable
\* sort on the key indexOf(group), which ranges over -1..Len(order)-1
sortByIndex(groups, order) ==
    Flatten([n \in 1..(Len(order) + 1) |->
               SelectSeq(groups, LAMBDA g : IndexOf(order, g.group) = n - 2)])

sortObserverBindingsByGroup(bs, order) == sortByIndex(groupMap(bs, order), order)

\* getObserverGroupsByOrder answering from the groups computed for the
\* first pass, when there was one
getObserverGroupsByOrderCached ==
    IF passes = <<>> THEN sortObserverBindingsByGroup(bindings, groupsByOrder)
    ELSE IF passes[1].kind = "start" THEN passes[1].groups
    ELSE [i \in 1..Len(passes[1].groups) |->
             passes[1].groups[Len(passes[1].groups) + 1 - i]]

getObserverGroupsByOrder == sortObserverBindingsByGroup(bindings, groupsByOrder)

(* ------------------------------- passes -------------------------------- *)

\* Status of the notifyObserver call of one binding for one event:
\*   idle        notifyObserver not called
\*   resolving   awaiting ctx.get(binding.key)
\*   unresolved  ctx.get rejected
\*   inflight    the observer's hook was invoked and has not settled
\*   done        the hook completed
\*   failed      the hook rejected
\*   skipped     the observer has no such hook; notifyObserver completed
Settled == {"done", "skipped"}

Members(p, g) == p.groups[g].bindings

MemberSet(p, g) == {Members(p, g)[m] : m \in 1..Len(Members(p, g))}

\* start one notifyObserver: it runs up to `await this.ctx.get(...)`
CallNotifyObserver(p, e, k) == [p EXCEPT !.hs[e][k] = "resolving"]

\* the loops exchanged: every event of one group before the next group
nextPositionGroupMajor(p, e, g) ==
    IF e < Len(p.events) THEN [e |-> e + 1, g |-> g] ELSE [e |-> 1, g |-> g + 1]

\* loops that never advance: the same group is notified of the same event
nextPositionStuck(p, e, g) == [e |-> e, g |-> g]

\* the loops of notifyGroups: `for (const event of events)` around
\* `for (const g of groups)`; the position that follows (event e, group g)
nextPosition(p, e, g) ==
    IF g < Len(p.groups) THEN [e |-> e, g |-> g + 1] ELSE [e |-> e + 1, g |-> 1]

\* notifyObserverGroup that awaits inside the loop whatever the option
NotifyObserverGroupSerial(p, e, g) ==
    CallNotifyObserver([p EXCEPT !.e = e, !.g = g, !.m = 1], e, Members(p, g)[1])

\* notifyObserverGroup that never awaits inside the loop
NotifyObserverGroupFanOut(p, e, g) ==
    [p EXCEPT !.e = e, !.g = g, !.m = 1,
              !.hs[e] = [k \in DOMAIN @ |->
                           IF k \in MemberSet(p, g) THEN "resolving" ELSE @[k]]]

\* notifyObserverGroup(groups[g], events[e]) up to its first suspension: in
\* parallel mode every notifyObserver of the group is called, in serial
\* mode the first one
NotifyObserverGroup(p, e, g) ==
    LET q == [p EXCEPT !.e = e, !.g = g, !.m = 1]
    IN IF p.parallel
       THEN [q EXCEPT !.hs[e] = [k \in DOMAIN @ |->
                                   IF k \in MemberSet(p, g) THEN "resolving" ELSE @[k]]]
       ELSE CallNotifyObserver(q, e, Members(p, g)[1])

\* notifyGroups at (event e, group g), up to the next suspension; past the
\* last event the pass resolves (a group is never empty)
NotifyGroups(p, e, g) ==
    IF e > Len(p.events) \/ g > Len(p.groups) THEN [p EXCEPT !.status = "resolved"]
    ELSE NotifyObserverGroup(p, e, g)

\* a pass that computes the groups anew for each group it notifies, from
\* the bindings and the order of the moment
GroupCompletedRediscovers(p) ==
    LET q == [p EXCEPT !.groups = IF p.kind = "start" THEN getObserverGroupsByOrder
                                  ELSE Reverse(getObserverGroupsByOrder),
                       !.hs = [e \in DOMAIN p.hs |->
                                 [k \in 1..Len(bindings) |->
                                    IF k \in DOMAIN p.hs[e] THEN p.hs[e][k] ELSE "idle"]]]
        n == nextPosition(q, p.e, p.g)
    IN NotifyGroups(q, n.e, n.g)

\* notifyObserverGroup(groups[p.g], events[p.e]) returned
GroupCompleted(p) ==
    LET n == nextPosition(p, p.e, p.g) IN NotifyGroups(p, n.e, n.g)

\* parallel mode without the join: the group returns at the first completion
MemberCompletedNoJoin(p) ==
    IF p.status # "running" THEN p
    ELSE IF p.parallel \/ p.m >= Len(Members(p, p.g))
         THEN GroupCompleted(p)
         ELSE CallNotifyObserver([p EXCEPT !.m = p.m + 1], p.e, Members(p, p.g)[p.m + 1])

\* serial mode never returning from the loop after the last member
MemberCompletedStalls(p) ==
    IF p.status # "running" THEN p
    ELSE IF p.parallel
         THEN IF \A k \in MemberSet(p, p.g) : p.hs[p.e][k] \in Settled
              THEN GroupCompleted(p)
              ELSE p
         ELSE IF p.m < Len(Members(p, p.g))
              THEN CallNotifyObserver([p EXCEPT !.m = p.m + 1], p.e, Members(p, p.g)[p.m + 1])
              ELSE p

\* one notifyObserver of the current group completed
MemberCompleted(p) ==
    IF p.status # "running" THEN p
    ELSE IF p.parallel
         THEN IF \A k \in MemberSet(p, p.g) : p.hs[p.e][k] \in Settled
              THEN GroupCompleted(p)
              ELSE p
         ELSE IF p.m < Len(Members(p, p.g))
              THEN CallNotifyObserver([p EXCEPT !.m = p.m + 1], p.e, Members(p, p.g)[p.m + 1])
              ELSE GroupCompleted(p)

\* parallel mode rejecting only when every sibling has settled
MemberRejectedAfterAll(p, err) ==
    IF p.status # "running" THEN p
    ELSE IF p.parallel /\ \E k \in MemberSet(p, p.g) : p.hs[p.e][k] \in {"resolving", "inflight"}
         THEN p
         ELSE [p EXCEPT !.status = "rejected", !.error = err]

\* the rejection swallowed: the notification goes on
MemberRejectedSwallowed(p, err) ==
    IF p.status # "running" THEN p
    ELSE IF p.parallel \/ p.m >= Len(Members(p, p.g))
         THEN GroupCompleted(p)
         ELSE CallNotifyObserver([p EXCEPT !.m = p.m + 1], p.e, Members(p, p.g)[p.m + 1])

\* a rollback: the failed pass goes on to notify the stop events
MemberRejectedRollback(p, err) ==
    IF p.status # "running" THEN p
    ELSE NotifyGroups([p EXCEPT !.error = err, !.events = StopEvents,
                                !.groups = Reverse(@),
                                !.hs = [e \in DOMAIN @ |-> [k \in DOMAIN @[e] |-> "idle"]]],
                      1, 1)

\* one notifyObserver of the current group rejected: in serial mode the
\* `await notifyObserver(b)` throws, in parallel mode Promise.all rejects
MemberRejected(p, err) ==
    IF p.status # "running" THEN p
    ELSE [p EXCEPT !.status = "rejected", !.error = err]

\* start()/stop() up to the first suspension: the groups are computed once,
\* at invocation; options.parallel is never reassigned, the pass keeps it
NewPass(kind, evs, groups) ==
    NotifyGroups(
        [kind |-> kind, events |-> evs, groups |-> groups,
         parallel |-> options.parallel,
         e |-> 1, g |-> 1, m |-> 1,
         hs |-> [e \in 1..Len(evs) |-> [k \in 1..Len(bindings) |-> "idle"]],
         status |-> "running", error |-> <<>>],
        1, 1)

\* The caller is a script of `calls` calls of start() or stop(), each one
\* awaited: it goes on when the pass resolved, as the test suite does
\* (`await lifecycle.start(); ... await lifecycle.stop();`)
CallerReady == \A i \in 1..Len(passes) : passes[i].status = "resolved"

\* stop() without the reverse()
stopGroupsNotReversed == getObserverGroupsByOrder

\* stop() reversing the members of each group as well
stopGroupsMembersReversed ==
    Reverse([n \in 1..Len(getObserverGroupsByOrder) |->
               [getObserverGroupsByOrder[n] EXCEPT !.bindings = Reverse(@)]])

\* `this.getObserverGroupsByOrder().reverse()` of stop()
stopGroups == Reverse(getObserverGroupsByOrder)

(* ------------------------ ContextWithLifeCycle -------------------------- *)
\* The earlier form of the registry, a Context subclass: the bindings are
\* kept in one flat sorted array and notified one after the other.  Its
\* field lifeCycleObserverGroups is held by the variable groupsByOrder; a
\* pass over the flat array is a serial pass over groups of one binding.

\* _getLifeCycleObserverGroup
getLifeCycleObserverGroup(b, order) ==
    IF b.group # "" THEN b.group
    ELSE IF \E i \in 1..Len(order) : order[i] \in b.tags
         THEN order[CHOOSE i \in 1..Len(order) :
                       /\ order[i] \in b.tags
                       /\ \A j \in 1..(i - 1) : order[j] \notin b.tags]
         ELSE ""

\* bindings.sort((b1, b2) => indexOf(group1) - indexOf(group2)): a stable
\* sort of the bindings themselves on the key indexOf(group)
sortLifeCycleObserverBindings(bs, order) ==
    Flatten([n \in 1..(Len(order) + 1) |->
               SelectIdx(Len(bs),
                   [i \in 1..Len(bs) |->
                       IndexOf(order, getLifeCycleObserverGroup(bs[i], order)) = n - 2], 1)])

findLifeCycleObserverBindings == sortLifeCycleObserverBindings(bindings, groupsByOrder)

\* the flat array as the sequence of groups of a pass
FlatGroups(flat) ==
    [n \in 1..Len(flat) |->
        [group    |-> getLifeCycleObserverGroup(bindings[flat[n]], groupsByOrder),
         bindings |-> <<flat[n]>>]]

\* a stop() that reverses the groups and keeps the order of their members,
\* as that of LifeCycleObserverRegistry does
stopBindingsByGroup ==
    Flatten([g \in 1..Len(stopGroups) |-> stopGroups[g].bindings])

\* findLifeCycleObserverBindings().reverse()
stopBindings == Reverse(findLifeCycleObserverBindings)

ContextWithLifeCycle_start ==
    /\ calls > 0
    /\ CallerReady
    /\ calls' = calls - 1
    /\ passes' = Append(passes,
                     NewPass("start", StartEvents, FlatGroups(findLifeCycleObserverBindings)))
    /\ UNCHANGED <<bindings, groupsByOrder, options, events, returned, otherVars>>

ContextWithLifeCycle_stop ==
    /\ calls > 0
    /\ CallerReady
    /\ calls' = calls - 1
    /\ passes' = Append(passes, NewPass("stop", StopEvents, FlatGroups(stopBindings)))
    /\ UNCHANGED <<bindings, groupsByOrder, options, events, returned, otherVars>>

(* ------------------------------- Phase ---------------------------------- *)
\* A handler is named by the method that registered it and its rank among
\* the handlers so registered: <<"before", 1>> is b1 of the tests.  The
\* status of a handler is idle, started (called, its promise pending), done
\* or failed (its promise rejected).

Stages == <<"before", "use", "after">>

HandlerNames == {<<Stages[s], n>> : s \in 1..3, n \in 1..MaxHandlers}

\* new Phase(options): options.parallel is "true", "false" or "undefined"
NewPhase(parallel) ==
    [options        |-> [parallel |-> parallel],
     beforeHandlers |-> <<>>,
     handlers       |-> <<>>,
     afterHandlers  |-> <<>>,
     status         |-> "idle",
     stage          |-> 0,
     m              |-> 0,
     hs             |-> [h \in HandlerNames |-> "idle"],
     error          |-> <<>>]

\* `if (this.options.parallel)`
IsParallel(p) == p.options.parallel = "true"

\* run() with the handlers stage before the beforeHandlers stage
StageHandlersUseFirst(p, s) ==
    CASE s = 1 -> p.handlers
      [] s = 2 -> p.beforeHandlers
      [] s = 3 -> p.afterHandlers

\* the array that the s-th runHandlers call of run() is given
StageHandlers(p, s) ==
    CASE s = 1 -> p.beforeHandlers
      [] s = 2 -> p.handlers
      [] s = 3 -> p.afterHandlers

\* h(ctx): the handler runs up to its first suspension; the mock handler
\* pushes its name
CallHandler(r, h) ==
    [p |-> [r.p EXCEPT !.hs[h] = "started"],
     c |-> Append(r.c, [name |-> h, done |-> FALSE])]

RECURSIVE CallAll(_, _, _)
\* the loop `for (const h of handlers) tasks.push(h(ctx))` from index n
CallAll(r, L, n) ==
    IF n > Len(L) THEN r ELSE CallAll(CallHandler(r, L[n]), L, n + 1)

\* the loop of runHandlers awaiting each handler whatever the option
StartStageSerial(r, L) == CallHandler(r, L[1])

\* the loop of runHandlers never awaiting inside the loop
StartStageFanOut(r, L) == CallAll(r, L, 1)

\* the loop of runHandlers over a non-empty array, up to its first
\* suspension: every handler is called in parallel mode, the first one
\* otherwise
StartStage(r, L) ==
    IF IsParallel(r.p) THEN CallAll(r, L, 1) ELSE CallHandler(r, L[1])

RECURSIVE runHandlers(_, _)
\* run() from its s-th runHandlers call, up to the next suspension on a
\* handler; past the third the run resolves
runHandlers(r, s) ==
    IF s > 3 THEN [r EXCEPT !.p.status = "resolved"]
    ELSE LET q == [r EXCEPT !.p.stage = s, !.p.m = 1]
             L == StageHandlers(r.p, s)
         IN IF L = <<>> THEN runHandlers(q, s + 1) ELSE StartStage(q, L)

\* parallel mode without the join: the stage returns at the first completion
HandlerCompletedNoJoin(r) ==
    IF r.p.status # "running" THEN r
    ELSE IF IsParallel(r.p) \/ r.p.m >= Len(StageHandlers(r.p, r.p.stage))
         THEN runHandlers(r, r.p.stage + 1)
         ELSE CallHandler([r EXCEPT !.p.m = r.p.m + 1],
                          StageHandlers(r.p, r.p.stage)[r.p.m + 1])

\* the promise of a handler of the current stage resolved
HandlerCompleted(r) ==
    IF r.p.status # "running" THEN r
    ELSE LET L == StageHandlers(r.p, r.p.stage)
         IN IF IsParallel(r.p)
            THEN IF \A n \in 1..Len(L) : r.p.hs[L[n]] = "done"
                 THEN runHandlers(r, r.p.stage + 1)
                 ELSE r
            ELSE IF r.p.m < Len(L)
                 THEN CallHandler([r EXCEPT !.p.m = r.p.m + 1], L[r.p.m + 1])
                 ELSE runHandlers(r, r.p.stage + 1)

\* the rejection swallowed: the run goes on with the next handler or stage
HandlerFailedContinues(r, h) ==
    IF r.p.status # "running" THEN r
    ELSE IF IsParallel(r.p) \/ r.p.m >= Len(StageHandlers(r.p, r.p.stage))
         THEN runHandlers(r, r.p.stage + 1)
         ELSE CallHandler([r EXCEPT !.p.m = r.p.m + 1],
                          StageHandlers(r.p, r.p.stage)[r.p.m + 1])

\* the promise of handler h rejected: `await h(ctx)` throws, or Promise.all
\* rejects, and run() rejects
HandlerFailed(r, h) ==
    IF r.p.status # "running" THEN r
    ELSE [r EXCEPT !.p.status = "rejected", !.p.error = h]

\* The handlers are registered before the run, as in the tests, and the
\* Phase is run once.  A handler is an async function: it fails by
\* rejecting its promise.

\* phase.before(handler)
before ==
    /\ phase.status = "idle"
    /\ Len(phase.beforeHandlers) < MaxHandlers
    /\ phase' = [phase EXCEPT !.beforeHandlers = Append(@, <<"before", Len(@) + 1>>)]
    /\ registered' = IF phase.beforeHandlers = <<>> THEN Append(registered, "before")
                                                  ELSE registered
    /\ UNCHANGED <<registryVars, called, appVars, listVars>>

\* phase.use(handler)
use ==
    /\ phase.status = "idle"
    /\ Len(phase.handlers) < MaxHandlers
    /\ phase' = [phase EXCEPT !.handlers = Append(@, <<"use", Len(@) + 1>>)]
    /\ registered' = IF phase.handlers = <<>> THEN Append(registered, "use")
                                            ELSE registered
    /\ UNCHANGED <<registryVars, called, appVars, listVars>>

\* phase.after(handler)
after ==
    /\ phase.status = "idle"
    /\ Len(phase.afterHandlers) < MaxHandlers
    /\ phase' = [phase EXCEPT !.afterHandlers = Append(@, <<"after", Len(@) + 1>>)]
    /\ registered' = IF phase.afterHandlers = <<>> THEN Append(registered, "after")
                                                 ELSE registered
    /\ UNCHANGED <<registryVars, called, appVars, listVars>>

\* phase.run(): the test calls it once, after the registrations
run ==
    /\ phase.status = "idle"
    /\ LET r == runHandlers([p |-> [phase EXCEPT !.status = "running"], c |-> called], 1)
       IN phase' = r.p /\ called' = r.c
    /\ UNCHANGED <<registryVars, registered, appVars, listVars>>

\* the promise of handler h resolves; the mock handler pushes name_done
HandlerCompletes(h) ==
    /\ phase.hs[h] = "started"
    /\ LET r == HandlerCompleted(
                    [p |-> [phase EXCEPT !.hs[h] = "done"],
                     c |-> Append(called, [name |-> h, done |-> TRUE])])
       IN phase' = r.p /\ called' = r.c
    /\ UNCHANGED <<registryVars, registered, appVars, listVars>>

\* the promise of handler h rejects
HandlerFails(h) ==
    /\ phase.hs[h] = "started"
    /\ LET r == HandlerFailed([p |-> [phase EXCEPT !.hs[h] = "failed"], c |-> called], h)
       IN phase' = r.p /\ called' = r.c
    /\ UNCHANGED <<registryVars, registered, appVars, listVars>>

(* ---------------------------- Application ------------------------------ *)
\* The bindings an application may hold.  `namespace` is the part of the
\* key before its first dot, so that key.startsWith(ns + '.') is
\* namespace = ns.  app.server() binds under servers. with the tag server,
\* app.component() under components. with the tag component; the tests bind
\* fake-server with the tag only, and controllers.servers without any.

AppBindings ==
    {[key |-> "servers.RestServer", namespace |-> "servers", tags |-> {"server"}],
     [key |-> "servers.raw", namespace |-> "servers", tags |-> {}],
     [key |-> "fake-server", namespace |-> "", tags |-> {"server"}],
     [key |-> "components.A", namespace |-> "components", tags |-> {"component"}],
     [key |-> "components.B", namespace |-> "components", tags |-> {"component"}],
     [key |-> "controllers.servers", namespace |-> "controllers", tags |-> {}]}

AppKeys == {b.key : b \in AppBindings}

\* component A declares lifeCycleObservers, component B does not
ComponentObservers(key) ==
    IF key = "components.A"
    THEN [defined |-> TRUE, list |-> [n \in 1..MaxAppObservers |-> n]]
    ELSE [defined |-> FALSE, list |-> <<>>]

\* new Application() with the bindings bs added
NewApplication(bs) ==
    [bindings           |-> bs,
     lifeCycleObservers |-> [k \in AppKeys |-> ComponentObservers(k)],
     op                 |-> "none",
     status             |-> "idle",
     stage              |-> 0,
     ncalls             |-> 0,
     bs                 |-> [k \in AppKeys |-> "idle"],
     pos                |-> [k \in AppKeys |-> 0]]

\* the bindings found by the tag alone
findByTagOnly(a, keyNamespace, tag) ==
    {b.key : b \in {c \in a.bindings : tag \in c.tags}}

\* _findByNamespaceOrTag: the keys of the bindings under the namespace or
\* carrying the tag
findByNamespaceOrTag(a, keyNamespace, tag) ==
    {b.key : b \in {c \in a.bindings : c.namespace = keyNamespace \/ tag \in c.tags}}

\* the bindings that the s-th step of start() or stop() goes through:
\* start() components then servers, stop() servers then components
AppFound(a, s) ==
    IF (a.op = "start") = (s = 1)
    THEN findByNamespaceOrTag(a, "components", "component")
    ELSE findByNamespaceOrTag(a, "servers", "server")

IsComponent(a, k) == k \in findByNamespaceOrTag(a, "components", "component")

RECURSIVE forEach(_, _)
\* start() or stop() from its s-th _forEach... call up to the next
\* suspension: every callback of bindings.map awaits this.get; an empty
\* Promise.all resolves and the call goes on; past the second it resolves
forEach(r, s) ==
    IF s > 2 THEN [r EXCEPT !.a.status = "resolved"]
    ELSE LET q == [r EXCEPT !.a.stage = s]
             F == AppFound(r.a, s)
         IN IF F = {} THEN forEach(q, s + 1)
            ELSE [q EXCEPT !.a.bs = [k \in AppKeys |-> IF k \in F THEN "resolving" ELSE @[k]]]

\* Promise.all returning at the first callback that completes
AppJoinFirst(r) ==
    IF r.a.status = "running" THEN forEach(r, r.a.stage + 1) ELSE r

\* Promise.all of _forEach...: when every callback has completed the call
\* goes on
AppJoin(r) ==
    IF r.a.status = "running" /\ \A k \in AppFound(r.a, r.a.stage) : r.a.bs[k] = "done"
    THEN forEach(r, r.a.stage + 1)
    ELSE r

\* observer.start() or observer.stop() on the n-th element of the
\* component's array, or on the server itself (observer 0)
AppCall(r, k, n) ==
    [r EXCEPT !.a.bs[k] = "running", !.a.pos[k] = n,
              !.l = Append(@, [key |-> k,
                               observer |-> IF n = 0 THEN 0
                                            ELSE r.a.lifeCycleObservers[k].list[n],
                               method |-> r.a.op, done |-> FALSE])]

\* fn(server) or fn(component) once this.get resolved: s.start() / s.stop()
\* on a server; on a component the loop over c.lifeCycleObservers, which
\* stop() reverses in place, up to its first await
AppFn(r, k) ==
    IF ~IsComponent(r.a, k) THEN AppCall(r, k, 0)
    ELSE LET o == r.a.lifeCycleObservers[k]
             q == IF o.defined /\ r.a.op = "stop"
                  THEN [r EXCEPT !.a.lifeCycleObservers[k].list = Reverse(@)]
                  ELSE r
         IN IF o.defined /\ o.list # <<>>
            THEN AppCall(q, k, 1)
            ELSE AppJoin([q EXCEPT !.a.bs[k] = "done"])

\* the promise of the call in flight for binding k resolved
AppCompleted(r, k) ==
    LET n == r.a.pos[k]
        q == [r EXCEPT !.l = Append(@, [key |-> k,
                               observer |-> IF n = 0 THEN 0
                                            ELSE r.a.lifeCycleObservers[k].list[n],
                               method |-> r.a.op, done |-> TRUE])]
    IN IF n > 0 /\ n < Len(r.a.lifeCycleObservers[k].list)
       THEN AppCall(q, k, n + 1)
       ELSE AppJoin([q EXCEPT !.a.bs[k] = "done"])

\* this.get or the call in flight for binding k rejected: the callback
\* throws, Promise.all rejects and so does start() or stop()
AppFailed(r, k) ==
    [r EXCEPT !.a.bs[k] = "failed",
              !.a.status = IF @ = "running" THEN "rejected" ELSE @]

\* The caller awaits each call and goes on when it resolved.

\* app.start()
Application_start ==
    /\ app.status \in {"idle", "resolved"}
    /\ app.ncalls < MaxAppCalls
    /\ LET r == forEach([a |-> [app EXCEPT !.op = "start", !.status = "running",
                                           !.ncalls = @ + 1,
                                           !.bs = [k \in AppKeys |-> "idle"],
                                           !.pos = [k \in AppKeys |-> 0]],
                         l |-> <<>>], 1)
       IN app' = r.a /\ appLog' = r.l
    /\ UNCHANGED <<registryVars, phaseVars, listVars>>

\* app.stop()
Application_stop ==
    /\ app.status \in {"idle", "resolved"}
    /\ app.ncalls < MaxAppCalls
    /\ LET r == forEach([a |-> [app EXCEPT !.op = "stop", !.status = "running",
                                           !.ncalls = @ + 1,
                                           !.bs = [k \in AppKeys |-> "idle"],
                                           !.pos = [k \in AppKeys |-> 0]],
                         l |-> <<>>], 1)
       IN app' = r.a /\ appLog' = r.l
    /\ UNCHANGED <<registryVars, phaseVars, listVars>>

\* this.get(binding.key) resolves
AppGetResolves(k) ==
    /\ app.bs[k] = "resolving"
    /\ LET r == AppFn([a |-> app, l |-> appLog], k)
       IN app' = r.a /\ appLog' = r.l
    /\ UNCHANGED <<registryVars, phaseVars, listVars>>

\* this.get(binding.key) rejects
AppGetFails(k) ==
    /\ app.bs[k] = "resolving"
    /\ LET r == AppFailed([a |-> app, l |-> appLog], k)
       IN app' = r.a /\ appLog' = r.l
    /\ UNCHANGED <<registryVars, phaseVars, listVars>>

\* the start() or stop() in flight for binding k resolves
AppHookCompletes(k) ==
    /\ app.bs[k] = "running"
    /\ LET r == AppCompleted([a |-> app, l |-> appLog], k)
       IN app' = r.a /\ appLog' = r.l
    /\ UNCHANGED <<registryVars, phaseVars, listVars>>

\* the start() or stop() in flight for binding k rejects
AppHookFails(k) ==
    /\ app.bs[k] = "running"
    /\ LET r == AppFailed([a |-> app, l |-> appLog], k)
       IN app' = r.a /\ appLog' = r.l
    /\ UNCHANGED <<registryVars, phaseVars, listVars>>

(* ----------------------------- PhaseList ------------------------------- *)
\* A Phase object is [id, oid]: oid 1 is the object that the list makes
\* from a name (new Phase(name)), oid 2 an object that the caller made
\* (new Phase(id)); the caller makes one object per id and holds no object
\* that the list made once it is removed.  An argument `string | Phase` is
\* such an object, or [id, oid 0] for the string id.

PhaseIds == {"a", "b", "c"}

NoPhaseObject == [id |-> "", oid |-> 0]

CallerPhases == {[id |-> i, oid |-> 2] : i \in PhaseIds}

PhaseNameArgs == {[id |-> i, oid |-> 0] : i \in PhaseIds}

\* new PhaseList()
NewPhaseList ==
    [phases |-> <<>>, phaseMap |-> [i \in PhaseIds |-> NoPhaseObject]]

NoListCall ==
    [op |-> "none", ref |-> "", index |-> 0, args |-> <<>>,
     outcome |-> "none", value |-> <<>>, n |-> 0]

\* getPhaseNames()
getPhaseNames(pl) == [j \in 1..Len(pl.phases) |-> pl.phases[j].id]

\* Array.prototype.splice(index, 0, x) for 0 <= index
spliceInsert(seq, index, x) ==
    LET i == IF index > Len(seq) THEN Len(seq) ELSE index
    IN SubSeq(seq, 1, i) \o <<x>> \o SubSeq(seq, i + 1, Len(seq))

\* Array.prototype.splice(start, 1): a negative start counts from the end
spliceRemove(seq, start) ==
    LET i == IF start < 0
             THEN (IF Len(seq) + start < 0 THEN 0 ELSE Len(seq) + start)
             ELSE start
    IN SubSeq(seq, 1, i) \o SubSeq(seq, i + 2, Len(seq))

\* the result of an operation of the list: the list after it, the error
\* thrown ("" if none) and the value returned (<<>> for null)

\* _resolveNameAndAddToMap: a string makes a new Phase; an id already in
\* the map throws, else the map gets the phase
resolveNameAndAddToMap(pl, phaseOrName) ==
    LET p == IF phaseOrName.oid = 0 THEN [id |-> phaseOrName.id, oid |-> 1]
             ELSE phaseOrName
    IN IF pl.phaseMap[p.id] # NoPhaseObject
       THEN [pl |-> pl, thrown |-> "Phase already exists", value |-> <<>>]
       ELSE [pl |-> [pl EXCEPT !.phaseMap[p.id] = p], thrown |-> "", value |-> <<p>>]

RECURSIVE addLoop(_, _, _, _)
\* the loop of add over its arguments from the n-th: the phases resolved
\* so far are in the list when a later one throws
addLoop(pl, args, n, added) ==
    IF n > Len(args) THEN [pl |-> pl, thrown |-> "", value |-> added]
    ELSE LET r == resolveNameAndAddToMap(pl, args[n])
         IN IF r.thrown # "" THEN r
            ELSE addLoop([r.pl EXCEPT !.phases = Append(@, r.value[1])],
                         args, n + 1, Append(added, r.value[1]))

\* add(...phases)
listAdd(pl, args) == addLoop(pl, args, 1, <<>>)

\* addAt(index, phase)
listAddAt(pl, index, p) ==
    LET r == resolveNameAndAddToMap(pl, p)
    IN IF r.thrown # "" THEN r
       ELSE [r EXCEPT !.pl.phases = spliceInsert(@, index, r.value[1])]

\* addAfter inserting at the index of the referential phase
listAddAfterAtRef(pl, ref, p) ==
    LET ix == IndexOf(getPhaseNames(pl), ref)
    IN IF ix = -1 THEN [pl |-> pl, thrown |-> "Unknown phase", value |-> <<>>]
       ELSE listAddAt(pl, ix, p)

\* addAfter(after, phase)
listAddAfter(pl, ref, p) ==
    LET ix == IndexOf(getPhaseNames(pl), ref)
    IN IF ix = -1 THEN [pl |-> pl, thrown |-> "Unknown phase", value |-> <<>>]
       ELSE listAddAt(pl, ix + 1, p)

\* addBefore(before, phase)
listAddBefore(pl, ref, p) ==
    LET ix == IndexOf(getPhaseNames(pl), ref)
    IN IF ix = -1 THEN [pl |-> pl, thrown |-> "Unknown phase", value |-> <<>>]
       ELSE listAddAt(pl, ix, p)

\* remove(phase): null for a name that the map does not have; else splice
\* at the index of the object in the list, and delete the id from the map
listRemove(pl, x) ==
    LET p == IF x.oid = 0 THEN pl.phaseMap[x.id] ELSE x
    IN IF p = NoPhaseObject
       THEN [pl |-> pl, thrown |-> "", value |-> <<>>]
       ELSE [pl |-> [phases |-> spliceRemove(pl.phases, IndexOf(pl.phases, p)),
                     phaseMap |-> [pl.phaseMap EXCEPT ![x.id] = NoPhaseObject]],
             thrown |-> "", value |-> <<p>>]

\* the arguments `string | Phase` of the caller: a name, an object it made,
\* or an object of the list
PhaseArgs == PhaseNameArgs \cup CallerPhases
                 \cup {phaseList.phases[j] : j \in 1..Len(phaseList.phases)}

\* the call recorded with its result
ListCalled(op, ref, index, args, r) ==
    /\ listCall.n < MaxListCalls
    /\ phaseList' = r.pl
    /\ listCall' = [op |-> op, ref |-> ref, index |-> index, args |-> args,
                    outcome |-> IF r.thrown = "" THEN "returned" ELSE r.thrown,
                    value |-> r.value, n |-> listCall.n + 1]
    /\ UNCHANGED <<registryVars, phaseVars, appVars>>

\* add with one phase or name, or with several names
PhaseList_add ==
    \/ \E p \in PhaseArgs :
           ListCalled("add", "", 0, <<p>>, listAdd(phaseList, <<p>>))
    \/ \E k \in 2..MaxAddArgs : \E args \in [1..k -> PhaseNameArgs] :
           ListCalled("add", "", 0, args, listAdd(phaseList, args))

PhaseList_addAt ==
    \E index \in 0..Len(phaseList.phases) : \E p \in PhaseArgs :
        ListCalled("addAt", "", index, <<p>>, listAddAt(phaseList, index, p))

PhaseList_addAfter ==
    \E ref \in PhaseIds : \E p \in PhaseArgs :
        ListCalled("addAfter", ref, 0, <<p>>, listAddAfter(phaseList, ref, p))

PhaseList_addBefore ==
    \E ref \in PhaseIds : \E p \in PhaseArgs :
        ListCalled("addBefore", ref, 0, <<p>>, listAddBefore(phaseList, ref, p))

PhaseList_remove ==
    \E x \in PhaseArgs :
        ListCalled("remove", "", 0, <<x>>, listRemove(phaseList, x))

(* ------------------------------ actions -------------------------------- *)

\* start() of a registry that remembers it is started: after a start()
\* the next start() returns at once, notifying nobody
startOnce ==
    /\ calls > 0
    /\ CallerReady
    /\ calls' = calls - 1
    /\ passes' = Append(passes,
          LET p == NewPass("start", StartEvents, getObserverGroupsByOrder)
          IN IF passes # <<>> /\ passes[Len(passes)].kind = "start"
             THEN [p EXCEPT !.status = "resolved",
                            !.hs = [e \in DOMAIN @ |-> [k \in DOMAIN @[e] |-> "idle"]]]
             ELSE p)
    /\ UNCHANGED <<bindings, groupsByOrder, options, events, returned, otherVars>>

start ==
    /\ calls > 0
    /\ CallerReady
    /\ calls' = calls - 1
    /\ passes' = Append(passes, NewPass("start", StartEvents, getObserverGroupsByOrder))
    /\ UNCHANGED <<bindings, groupsByOrder, options, events, returned, otherVars>>

stop ==
    /\ calls > 0
    /\ CallerReady
    /\ calls' = calls - 1
    /\ passes' = Append(passes, NewPass("stop", StopEvents, stopGroups))
    /\ UNCHANGED <<bindings, groupsByOrder, options, events, returned, otherVars>>

\* ctx.get resolved; the observer has the hook: invokeObserver calls it
InvokeHook(i, k) ==
    LET p == passes[i] IN
    /\ p.hs[p.e][k] = "resolving"
    /\ p.events[p.e] \in bindings[k].hooks
    /\ passes' = [passes EXCEPT ![i].hs[p.e][k] = "inflight"]
    /\ events' = IF bindings[k].name = "" THEN events
                  ELSE Append(events, <<p.events[p.e], bindings[k].name>>)
    /\ UNCHANGED <<bindings, groupsByOrder, options, calls, returned, otherVars>>

\* SkipHook without the typeof test of invokeObserver: the missing hook is
\* called and the call throws
SkipHookThrows(i, k) ==
    LET p == passes[i] IN
    /\ p.hs[p.e][k] = "resolving"
    /\ p.events[p.e] \notin bindings[k].hooks
    /\ passes' = [passes EXCEPT ![i] =
                     MemberRejected([p EXCEPT !.hs[p.e][k] = "failed"], <<p.events[p.e], k>>)]
    /\ UNCHANGED <<bindings, groupsByOrder, options, calls, events, returned, otherVars>>

\* ctx.get resolved; the observer has no such hook
SkipHook(i, k) ==
    LET p == passes[i] IN
    /\ p.hs[p.e][k] = "resolving"
    /\ p.events[p.e] \notin bindings[k].hooks
    /\ passes' = [passes EXCEPT ![i] = MemberCompleted([p EXCEPT !.hs[p.e][k] = "skipped"])]
    /\ UNCHANGED <<bindings, groupsByOrder, options, calls, events, returned, otherVars>>

\* the rejection of ctx.get caught inside notifyObserver: the notifier
\* completes
ResolveFailsCaught(i, k) ==
    LET p == passes[i] IN
    /\ p.hs[p.e][k] = "resolving"
    /\ passes' = [passes EXCEPT ![i] = MemberCompleted([p EXCEPT !.hs[p.e][k] = "unresolved"])]
    /\ UNCHANGED <<bindings, groupsByOrder, options, calls, events, returned, otherVars>>

\* ctx.get rejected
ResolveFails(i, k) ==
    LET p == passes[i] IN
    /\ p.hs[p.e][k] = "resolving"
    /\ passes' = [passes EXCEPT ![i] =
                     MemberRejected([p EXCEPT !.hs[p.e][k] = "unresolved"], <<"resolve", k>>)]
    /\ UNCHANGED <<bindings, groupsByOrder, options, calls, events, returned, otherVars>>

\* the hook completed
HookCompletes(i, k) ==
    LET p == passes[i] IN
    /\ p.hs[p.e][k] = "inflight"
    /\ passes' = [passes EXCEPT ![i] = MemberCompleted([p EXCEPT !.hs[p.e][k] = "done"])]
    /\ UNCHANGED <<bindings, groupsByOrder, options, calls, events, returned, otherVars>>

\* the hook rejected
HookFails(i, k) ==
    LET p == passes[i] IN
    /\ p.hs[p.e][k] = "inflight"
    /\ passes' = [passes EXCEPT ![i] =
                     MemberRejected([p EXCEPT !.hs[p.e][k] = "failed"], <<p.events[p.e], k>>)]
    /\ UNCHANGED <<bindings, groupsByOrder, options, calls, events, returned, otherVars>>

\* setGroupsByOrder(groups): `groups || ['server']`.  The argument is an
\* array (truthy, the empty one too) or undefined.  The caller calls it
\* between the calls of its script.
setGroupsByOrder(arg) ==
    /\ calls > 0
    /\ CallerReady
    /\ groupsByOrder' = IF arg.defined THEN arg.value ELSE DefaultGroupsByOrder
    /\ UNCHANGED <<bindings, options, calls, passes, events, returned, otherVars>>

\* stop() of a registry that lets a start() pass finish first: called
\* while one is in flight it returns at once, notifying nobody
stopInFlightExcluded ==
    /\ calls > 0
    /\ \E i \in 1..Len(passes) : passes[i].kind = "start" /\ passes[i].status = "running"
    /\ calls' = calls - 1
    /\ passes' = Append(passes,
          [NewPass("stop", StopEvents, stopGroups) EXCEPT
              !.status = "resolved",
              !.hs = [e \in DOMAIN @ |-> [k \in DOMAIN @[e] |-> "idle"]]])
    /\ UNCHANGED <<bindings, groupsByOrder, options, events, returned, otherVars>>

\* stop() called, by a caller that does not await the start(), while the
\* start() pass is in flight: the registry keeps no state of its passes
stopInFlight ==
    /\ calls > 0
    /\ \E i \in 1..Len(passes) : passes[i].kind = "start" /\ passes[i].status = "running"
    /\ calls' = calls - 1
    /\ passes' = Append(passes, NewPass("stop", StopEvents, stopGroups))
    /\ UNCHANGED <<bindings, groupsByOrder, options, events, returned, otherVars>>

\* setGroupsByOrder(groups) called while a pass is in flight
setGroupsByOrderInFlight(arg) ==
    /\ \E i \in 1..Len(passes) : passes[i].status = "running"
    /\ groupsByOrder' = IF arg.defined THEN arg.value ELSE DefaultGroupsByOrder
    /\ UNCHANGED <<bindings, options, calls, passes, events, returned, otherVars>>

\* an observer bound in the context while a pass is in flight: from then on
\* findObserverBindings finds it
bindInFlight(b) ==
    /\ \E i \in 1..Len(passes) : passes[i].status = "running"
    /\ \A k \in 1..Len(bindings) : bindings[k] # b
    /\ bindings' = Append(bindings, b)
    /\ UNCHANGED <<groupsByOrder, options, calls, passes, events, returned, otherVars>>

\* the caller calls getObserverGroupsByOrder(), as getObserverGroups() of
\* the test suite does
\* a call that adds the names of the groups it met to the configured order
callGetObserverGroupsByOrderRegistering ==
    /\ Len(returned.earlier) + (IF returned.called THEN 1 ELSE 0) < MaxGets
    /\ returned' = [called  |-> TRUE,
                    groups  |-> getObserverGroupsByOrder,
                    earlier |-> IF returned.called
                                THEN Append(returned.earlier, returned.groups)
                                ELSE returned.earlier]
    /\ groupsByOrder' = groupsByOrder \o
          [n \in 1..Len(SelectSeq(getObserverGroupsByOrder,
                                  LAMBDA g : IndexOf(groupsByOrder, g.group) = -1)) |->
              SelectSeq(getObserverGroupsByOrder,
                        LAMBDA g : IndexOf(groupsByOrder, g.group) = -1)[n].group]
    /\ UNCHANGED <<bindings, options, calls, passes, events, otherVars>>

callGetObserverGroupsByOrder ==
    /\ Len(returned.earlier) + (IF returned.called THEN 1 ELSE 0) < MaxGets
    /\ returned' = [called  |-> TRUE,
                    groups  |-> getObserverGroupsByOrder,
                    earlier |-> IF returned.called
                                THEN Append(returned.earlier, returned.groups)
                                ELSE returned.earlier]
    /\ UNCHANGED <<bindings, groupsByOrder, options, calls, passes, events, otherVars>>

(* --------------------------- initial states ---------------------------- *)

NotCalled == [called |-> FALSE, groups |-> <<>>, earlier |-> <<>>]

\* A binding: its explicit group tag ('' when absent), the tags t with
\* tagMap[t] === t, the hooks its observer implements, and the name under
\* which the observer pushes `${event}-${name}` to the events array of the
\* test suite ('' for an observer that records nothing).
\* The kinds: an observer with the six hooks in group g1 or g2, and a
\* FakeServer (start/stop only) tagged `server`
BindingKinds ==
    { [group |-> "g1", tags |-> {}, hooks |-> lifeCycleMethods, name |-> ""],
      [group |-> "g2", tags |-> {}, hooks |-> lifeCycleMethods, name |-> ""],
      [group |-> "", tags |-> {"server"}, hooks |-> {"start", "stop"}, name |-> ""] }

GroupOrders == { DefaultGroupsByOrder, <<"g1", "g2">>, <<"g1", "g2", "server">> }

Init ==
    /\ bindings \in UNION {[1..n -> BindingKinds] : n \in 0..MaxObservers}
    /\ groupsByOrder \in GroupOrders
    /\ options \in [parallel : BOOLEAN]
    /\ calls = 1
    /\ passes = <<>>
    /\ events = <<>>
    /\ returned = NotCalled
    /\ phase = NewPhase("undefined")
    /\ called = <<>>
    /\ registered = <<>>
    /\ app = NewApplication({})
    /\ appLog = <<>>
    /\ phaseList = NewPhaseList
    /\ listCall = NoListCall

Next ==
    \/ start
    \/ stop
    \/ \E i \in 1..Len(passes) : \E k \in 1..Len(bindings) : InvokeHook(i, k)
    \/ \E i \in 1..Len(passes) : \E k \in 1..Len(bindings) : SkipHook(i, k)
    \/ \E i \in 1..Len(passes) : \E k \in 1..Len(bindings) : ResolveFails(i, k)
    \/ \E i \in 1..Len(passes) : \E k \in 1..Len(bindings) : HookCompletes(i, k)
    \/ \E i \in 1..Len(passes) : \E k \in 1..Len(bindings) : HookFails(i, k)

Spec == Init /\ [][Next]_vars

\* a pending `await this.ctx.get(binding.key)` settles
ResolutionSettles ==
    \E i \in 1..Len(passes) : \E k \in 1..Len(bindings) :
        InvokeHook(i, k) \/ SkipHook(i, k) \/ ResolveFails(i, k)

\* a pending `await observer[event]()` settles
HookSettles ==
    \E i \in 1..Len(passes) : \E k \in 1..Len(bindings) :
        HookCompletes(i, k) \/ HookFails(i, k)

\* the passes of Spec when every resolution and every invoked hook
\* eventually settles
SpecLive == Init /\ [][Next]_vars /\ WF_vars(ResolutionSettles) /\ WF_vars(HookSettles)

\* The recording observers of the test suite (MockObserver pushes
\* `${event}-${name}` to the events array): A in group g1 and B in group g2
\* with the six hooks, and a server with start and stop
TraceKinds ==
    { [group |-> "g1", tags |-> {}, hooks |-> lifeCycleMethods, name |-> "A"],
      [group |-> "g2", tags |-> {}, hooks |-> lifeCycleMethods, name |-> "B"],
      [group |-> "", tags |-> {"server"}, hooks |-> {"start", "stop"}, name |-> "server"] }

\* every registration order of every subset of the recording observers
InitTrace ==
    /\ bindings \in {bs \in UNION {[1..n -> TraceKinds] : n \in 0..Cardinality(TraceKinds)} :
                        \A i, j \in 1..Len(bs) : i # j => bs[i] # bs[j]}
    /\ groupsByOrder \in GroupOrders
    /\ options \in [parallel : BOOLEAN]
    /\ calls = MaxCalls
    /\ passes = <<>>
    /\ events = <<>>
    /\ returned = NotCalled
    /\ phase = NewPhase("undefined")
    /\ called = <<>>
    /\ registered = <<>>
    /\ app = NewApplication({})
    /\ appLog = <<>>
    /\ phaseList = NewPhaseList
    /\ listCall = NoListCall

SpecTrace == InitTrace /\ [][Next]_vars

\* the hooks of the example of the documentation, whose observers have
\* preStart, start and postStart
DocHooks == {"preStart", "start", "postStart"}

\* The example of the documentation: MySQLDataSource and MongoDBDataSource
\* registered in that order in group datasource, RestServer in group
\* server, the group order [datasource, server], the default options
InitDoc ==
    /\ bindings = << [group |-> "datasource", tags |-> {}, hooks |-> DocHooks, name |-> "mysql"],
                     [group |-> "datasource", tags |-> {}, hooks |-> DocHooks, name |-> "mongo"],
                     [group |-> "", tags |-> {"server"}, hooks |-> DocHooks, name |-> "rest"] >>
    /\ groupsByOrder = <<"datasource", "server">>
    /\ options = [parallel |-> TRUE]
    /\ calls = 1
    /\ passes = <<>>
    /\ events = <<>>
    /\ returned = NotCalled
    /\ phase = NewPhase("undefined")
    /\ called = <<>>
    /\ registered = <<>>
    /\ app = NewApplication({})
    /\ appLog = <<>>
    /\ phaseList = NewPhaseList
    /\ listCall = NoListCall

SpecDoc == InitDoc /\ [][Next]_vars

\* a ContextWithLifeCycle with up to MaxObservers bindings; it has no
\* options and notifies serially
InitCtx ==
    /\ bindings \in UNION {[1..n -> BindingKinds] : n \in 0..MaxObservers}
    /\ groupsByOrder \in GroupOrders
    /\ options = [parallel |-> FALSE]
    /\ calls = 1
    /\ passes = <<>>
    /\ events = <<>>
    /\ returned = NotCalled
    /\ phase = NewPhase("undefined")
    /\ called = <<>>
    /\ registered = <<>>
    /\ app = NewApplication({})
    /\ appLog = <<>>
    /\ phaseList = NewPhaseList
    /\ listCall = NoListCall

NextCtx ==
    \/ ContextWithLifeCycle_start
    \/ ContextWithLifeCycle_stop
    \/ \E i \in 1..Len(passes) : \E k \in 1..Len(bindings) : InvokeHook(i, k)
    \/ \E i \in 1..Len(passes) : \E k \in 1..Len(bindings) : SkipHook(i, k)
    \/ \E i \in 1..Len(passes) : \E k \in 1..Len(bindings) : ResolveFails(i, k)
    \/ \E i \in 1..Len(passes) : \E k \in 1..Len(bindings) : HookCompletes(i, k)
    \/ \E i \in 1..Len(passes) : \E k \in 1..Len(bindings) : HookFails(i, k)

SpecCtx == InitCtx /\ [][NextCtx]_vars

\* a Phase just constructed, with each value of options.parallel
InitPhase ==
    /\ bindings = <<>>
    /\ groupsByOrder = DefaultGroupsByOrder
    /\ options = [parallel |-> TRUE]
    /\ calls = 0
    /\ passes = <<>>
    /\ events = <<>>
    /\ returned = NotCalled
    /\ phase \in {NewPhase(o) : o \in {"true", "false", "undefined"}}
    /\ called = <<>>
    /\ registered = <<>>
    /\ app = NewApplication({})
    /\ appLog = <<>>
    /\ phaseList = NewPhaseList
    /\ listCall = NoListCall

NextPhase ==
    \/ before
    \/ use
    \/ after
    \/ run
    \/ \E h \in HandlerNames : HandlerCompletes(h)
    \/ \E h \in HandlerNames : HandlerFails(h)

SpecPhase == InitPhase /\ [][NextPhase]_vars

\* an application with any of the bindings
InitApp ==
    /\ bindings = <<>>
    /\ groupsByOrder = DefaultGroupsByOrder
    /\ options = [parallel |-> TRUE]
    /\ calls = 0
    /\ passes = <<>>
    /\ events = <<>>
    /\ returned = NotCalled
    /\ phase = NewPhase("undefined")
    /\ called = <<>>
    /\ registered = <<>>
    /\ app \in {NewApplication(bs) : bs \in SUBSET AppBindings}
    /\ appLog = <<>>
    /\ phaseList = NewPhaseList
    /\ listCall = NoListCall

NextApp ==
    \/ Application_start
    \/ Application_stop
    \/ \E k \in AppKeys : AppGetResolves(k)
    \/ \E k \in AppKeys : AppGetFails(k)
    \/ \E k \in AppKeys : AppHookCompletes(k)
    \/ \E k \in AppKeys : AppHookFails(k)

SpecApp == InitApp /\ [][NextApp]_vars

\* a PhaseList just constructed
InitList ==
    /\ bindings = <<>>
    /\ groupsByOrder = DefaultGroupsByOrder
    /\ options = [parallel |-> TRUE]
    /\ calls = 0
    /\ passes = <<>>
    /\ events = <<>>
    /\ returned = NotCalled
    /\ phase = NewPhase("undefined")
    /\ called = <<>>
    /\ registered = <<>>
    /\ app = NewApplication({})
    /\ appLog = <<>>
    /\ phaseList = NewPhaseList
    /\ listCall = NoListCall

NextList ==
    \/ PhaseList_add
    \/ PhaseList_addAt
    \/ PhaseList_addAfter
    \/ PhaseList_addBefore
    \/ PhaseList_remove

SpecList == InitList /\ [][NextList]_vars

\* the arguments of setGroupsByOrder: the orders of the tests, the empty
\* array, and undefined
OrderArgs ==
    { [defined |-> TRUE, value |-> o] : o \in GroupOrders \cup {<<>>} }
    \cup { [defined |-> FALSE, value |-> <<>>] }

\* the recording observers in a registry just constructed; the caller
\* configures the order between its calls
InitOrder ==
    /\ bindings \in {bs \in UNION {[1..n -> TraceKinds] : n \in 0..Cardinality(TraceKinds)} :
                        \A i, j \in 1..Len(bs) : i # j => bs[i] # bs[j]}
    /\ groupsByOrder = DefaultGroupsByOrder
    /\ options \in [parallel : BOOLEAN]
    /\ calls = MaxCalls
    /\ passes = <<>>
    /\ events = <<>>
    /\ returned = NotCalled
    /\ phase = NewPhase("undefined")
    /\ called = <<>>
    /\ registered = <<>>
    /\ app = NewApplication({})
    /\ appLog = <<>>
    /\ phaseList = NewPhaseList
    /\ listCall = NoListCall

NextOrder ==
    \/ Next
    \/ \E arg \in OrderArgs : setGroupsByOrder(arg)

SpecOrder == InitOrder /\ [][NextOrder]_vars

\* the recording observers that are bound while a pass is in flight
LateKinds ==
    { [group |-> "g1", tags |-> {}, hooks |-> lifeCycleMethods, name |-> "late"],
      [group |-> "", tags |-> {"server"}, hooks |-> {"start", "stop"}, name |-> "late"] }

\* the bindings that pass i was invoked with
PassKs(i) == DOMAIN passes[i].hs[1]

\* one pass over the recording observers, during which the caller
\* configures the order of the groups and binds more observers
InitFlight ==
    /\ bindings \in {bs \in UNION {[1..n -> TraceKinds] : n \in 0..Cardinality(TraceKinds)} :
                        \A i, j \in 1..Len(bs) : i # j => bs[i] # bs[j]}
    /\ groupsByOrder \in GroupOrders
    /\ options \in [parallel : BOOLEAN]
    /\ calls = 1
    /\ passes = <<>>
    /\ events = <<>>
    /\ returned = NotCalled
    /\ phase = NewPhase("undefined")
    /\ called = <<>>
    /\ registered = <<>>
    /\ app = NewApplication({})
    /\ appLog = <<>>
    /\ phaseList = NewPhaseList
    /\ listCall = NoListCall

NextFlight ==
    \/ start
    \/ stop
    \/ \E i \in 1..Len(passes) : \E k \in PassKs(i) : InvokeHook(i, k)
    \/ \E i \in 1..Len(passes) : \E k \in PassKs(i) : SkipHook(i, k)
    \/ \E i \in 1..Len(passes) : \E k \in PassKs(i) : ResolveFails(i, k)
    \/ \E i \in 1..Len(passes) : \E k \in PassKs(i) : HookCompletes(i, k)
    \/ \E i \in 1..Len(passes) : \E k \in PassKs(i) : HookFails(i, k)
    \/ \E arg \in OrderArgs : setGroupsByOrderInFlight(arg)
    \/ \E b \in LateKinds : bindInFlight(b)

SpecFlight == InitFlight /\ [][NextFlight]_vars

\* two calls on up to MaxOverlapObservers observers, the second of which
\* may be a stop() made while the start() pass is in flight
InitOverlap ==
    /\ bindings \in UNION {[1..n -> BindingKinds] : n \in 0..MaxOverlapObservers}
    /\ groupsByOrder \in GroupOrders
    /\ options \in [parallel : BOOLEAN]
    /\ calls = 2
    /\ passes = <<>>
    /\ events = <<>>
    /\ returned = NotCalled
    /\ phase = NewPhase("undefined")
    /\ called = <<>>
    /\ registered = <<>>
    /\ app = NewApplication({})
    /\ appLog = <<>>
    /\ phaseList = NewPhaseList
    /\ listCall = NoListCall

NextOverlap ==
    \/ Next
    \/ stopInFlight

SpecOverlap == InitOverlap /\ [][NextOverlap]_vars

\* The taggings of a binding: an explicit group tag '' (none), g1, g2 or
\* server, with or without the `server` tag, and a binding without group
\* tag that carries both the tags g1 and server.  No pass is made on them.
SortKinds ==
    { [group |-> g, tags |-> t, hooks |-> {"start", "stop"}, name |-> ""] :
         g \in {"", "g1", "g2", "server"}, t \in {{}, {"server"}} }
    \cup { [group |-> "", tags |-> {"g1", "server"}, hooks |-> {"start", "stop"}, name |-> ""] }

\* the orders without repetition over the names g1, g2 and server
SortOrders ==
    {o \in UNION {[1..n -> {"g1", "g2", "server"}] : n \in 0..3} :
        \A i, j \in 1..Len(o) : i # j => o[i] # o[j]}

InitSort ==
    /\ bindings \in UNION {[1..n -> SortKinds] : n \in 0..MaxSortBindings}
    /\ groupsByOrder \in SortOrders
    /\ options = [parallel |-> TRUE]
    /\ calls = 0
    /\ passes = <<>>
    /\ events = <<>>
    /\ returned = NotCalled
    /\ phase = NewPhase("undefined")
    /\ called = <<>>
    /\ registered = <<>>
    /\ app = NewApplication({})
    /\ appLog = <<>>
    /\ phaseList = NewPhaseList
    /\ listCall = NoListCall

NextSort == callGetObserverGroupsByOrder

SpecSort == InitSort /\ [][NextSort]_vars

(* ------------------------------ properties ----------------------------- *)

PassIds == 1..Len(passes)

Ks == 1..Len(bindings)

Ev(p) == 1..Len(p.events)

\* the hook of binding k for event e was invoked
Invoked(p, e, k) == p.hs[e][k] \in {"inflight", "done", "failed"}

\* notifyObserver of binding k for event e was called
Called(p, e, k) == p.hs[e][k] # "idle"

\* the index in p.groups of the group of binding k
GroupIdx(p, k) == CHOOSE g \in 1..Len(p.groups) : k \in MemberSet(p, g)

\* (event e1, group g1) is notified before (event e2, group g2)
Precedes(e1, g1, e2, g2) == e1 < e2 \/ (e1 = e2 /\ g1 < g2)

\* C1: in every pass, serial or parallel, when a hook of a later phase has
\* been invoked, the notification of every binding of every group for each
\* earlier phase has completed.
C1_PhasesStrictlyOrdered ==
    \A i \in PassIds : \A e1, e2 \in Ev(passes[i]) : \A k \in Ks :
        (e1 < e2 /\ Invoked(passes[i], e2, k))
            => \A k1 \in Ks : passes[i].hs[e1][k1] \in Settled

\* a parallel pass over two groups or more in which a hook of the second
\* phase is in flight
C1_Witness ==
    \E i \in PassIds : \E k \in Ks :
        /\ passes[i].parallel
        /\ Len(passes[i].groups) >= 2
        /\ passes[i].hs[2][k] = "inflight"
        /\ passes[i].hs[1][k] = "done"

\* C2: in a start pass, for two bindings whose groups are both in the
\* configured order, the one of the earlier group has completed each phase
\* before the hook of the other is invoked for that phase: a hook invoked
\* while the notification of another binding is not complete is not of a
\* group configured after the group of that binding.
C2_GroupOrderInStart ==
    \A i \in PassIds : \A e \in Ev(passes[i]) : \A k1, k2 \in Ks :
        LET n1 == IndexOf(groupsByOrder, getObserverGroup(bindings[k1], groupsByOrder))
            n2 == IndexOf(groupsByOrder, getObserverGroup(bindings[k2], groupsByOrder))
        IN (/\ passes[i].kind = "start"
            /\ Invoked(passes[i], e, k2)
            /\ passes[i].hs[e][k1] \notin Settled)
              => ~(n1 >= 0 /\ n1 < n2)

\* order [g1, g2, server], registration order g2, g1, server: the start hook
\* of the server is invoked
C2_Witness ==
    /\ groupsByOrder = <<"g1", "g2", "server">>
    /\ Len(bindings) = 3
    /\ bindings[1].group = "g2"
    /\ bindings[2].group = "g1"
    /\ "server" \in bindings[3].tags
    /\ \E i \in PassIds : passes[i].kind = "start" /\ passes[i].hs[2][3] = "inflight"

\* the recording observers A and B alone, under the order [g1, g2]
ScenarioAB ==
    /\ groupsByOrder = <<"g1", "g2">>
    /\ Len(bindings) = 2
    /\ {bindings[1].name, bindings[2].name} = {"A", "B"}

\* C3: a stop pass notifies the groups in the reverse of the sequence that
\* start() uses (the hook of a binding is invoked only when the bindings of the
\* groups that follow its group in getObserverGroupsByOrder are done with
\* the phase), and in the scenario of A and B a resolved start()
\* followed by a resolved stop() records exactly the twelve events of P3.
C3_StopReversesGroups ==
    /\ \A i \in PassIds :
          passes[i].kind = "stop" =>
             LET startGroups == getObserverGroupsByOrder IN
             \A e \in Ev(passes[i]) : \A g1, g2 \in 1..Len(startGroups) :
                \A m1 \in 1..Len(startGroups[g1].bindings) :
                \A m2 \in 1..Len(startGroups[g2].bindings) :
                   (g1 < g2 /\ Invoked(passes[i], e, startGroups[g1].bindings[m1]))
                      => passes[i].hs[e][startGroups[g2].bindings[m2]] \in Settled
    /\ (/\ ScenarioAB
        /\ Len(passes) = 2
        /\ passes[1].kind = "start"
        /\ passes[2].kind = "stop"
        /\ passes[2].status = "resolved")
          => events = << <<"preStart", "A">>, <<"preStart", "B">>,
                         <<"start", "A">>, <<"start", "B">>,
                         <<"postStart", "A">>, <<"postStart", "B">>,
                         <<"preStop", "B">>, <<"preStop", "A">>,
                         <<"stop", "B">>, <<"stop", "A">>,
                         <<"postStop", "B">>, <<"postStop", "A">> >>

\* B registered before A, parallel mode: start() then stop() resolved
C3_Witness ==
    /\ ScenarioAB
    /\ bindings[1].name = "B"
    /\ options.parallel
    /\ Len(passes) = 2
    /\ passes[1].kind = "start"
    /\ passes[2].kind = "stop"
    /\ passes[2].status = "resolved"
    /\ Len(events) = 12

\* C4: in serial mode a stop pass notifies the members of one group in the
\* member order of getObserverGroupsByOrder, the order a start pass uses:
\* the notification of a member is called only when the members before it
\* are done with the phase; and a start pass takes its groups unchanged.
C4_StopKeepsMemberOrder ==
    \A i \in PassIds :
       LET startGroups == getObserverGroupsByOrder IN
       /\ passes[i].kind = "start" =>
             \A g \in 1..Len(passes[i].groups) :
                \E g0 \in 1..Len(startGroups) : passes[i].groups[g] = startGroups[g0]
       /\ (passes[i].kind = "stop" /\ ~passes[i].parallel) =>
             \A e \in Ev(passes[i]) : \A g \in 1..Len(startGroups) :
                \A m1, m2 \in 1..Len(startGroups[g].bindings) :
                   (m1 < m2 /\ Called(passes[i], e, startGroups[g].bindings[m2]))
                      => passes[i].hs[e][startGroups[g].bindings[m1]] \in Settled

\* a serial stop pass in which the second member of a group has its hook in
\* flight after the first member's hook completed
C4_Witness ==
    \E i \in PassIds :
        /\ passes[i].kind = "stop"
        /\ ~passes[i].parallel
        /\ LET startGroups == getObserverGroupsByOrder IN
           \E g \in 1..Len(startGroups) :
              /\ Len(startGroups[g].bindings) >= 2
              /\ passes[i].hs[passes[i].e][startGroups[g].bindings[1]] = "done"
              /\ passes[i].hs[passes[i].e][startGroups[g].bindings[2]] = "inflight"

\* C5: in serial mode, within a group and a phase, notifyObserver of member
\* m+1 is not called (its instance is not resolved, its hook not invoked)
\* until the notification of member m has completed.
C5_SerialMemberOrder ==
    \A i \in PassIds : \A e \in Ev(passes[i]) : \A g \in 1..Len(passes[i].groups) :
       \A m \in 1..(Len(Members(passes[i], g)) - 1) :
          (~passes[i].parallel /\ Called(passes[i], e, Members(passes[i], g)[m + 1]))
             => passes[i].hs[e][Members(passes[i], g)[m]] \in Settled

\* a serial pass: the first member's hook is in flight and the second
\* member of the group is not yet resolved
C5_Witness ==
    \E i \in PassIds : \E g \in 1..Len(passes[i].groups) :
        /\ ~passes[i].parallel
        /\ Len(Members(passes[i], g)) >= 2
        /\ passes[i].hs[passes[i].e][Members(passes[i], g)[1]] = "inflight"
        /\ passes[i].hs[passes[i].e][Members(passes[i], g)[2]] = "idle"

\* some resolution or hook of the pass failed
HasFailure(p) == \E e \in Ev(p) : \E k \in Ks : p.hs[e][k] \in {"failed", "unresolved"}

\* C6: in parallel mode, in a pass without failure, a hook of a later group
\* or a later phase is invoked only when every member of each group
\* notified before it has completed that notification: no hook is invoked
\* while a notification that precedes it in the pass is not complete.
C6_ParallelJoinBarrier ==
    \A i \in PassIds :
       (passes[i].parallel /\ ~HasFailure(passes[i])) =>
          \A e1, e2 \in Ev(passes[i]) : \A k1, k2 \in Ks :
             (Invoked(passes[i], e2, k2) /\ passes[i].hs[e1][k1] \notin Settled)
                => ~Precedes(e1, GroupIdx(passes[i], k1), e2, GroupIdx(passes[i], k2))

\* parallel mode, no failure: a group of two members is done with the
\* phase and a hook of the next group is in flight in the same phase
C6_Witness ==
    \E i \in PassIds : \E g \in 1..(Len(passes[i].groups) - 1) :
        /\ passes[i].parallel
        /\ ~HasFailure(passes[i])
        /\ passes[i].g = g + 1
        /\ Len(Members(passes[i], g)) >= 2
        /\ \A k \in MemberSet(passes[i], g) : passes[i].hs[passes[i].e][k] = "done"
        /\ \E k \in MemberSet(passes[i], g + 1) : passes[i].hs[passes[i].e][k] = "inflight"

\* C7: in parallel mode the notifications of all members of a group are
\* started together: once notifyObserver was called for one member it was
\* called for every member, whatever the state of the other hooks; and a
\* hook in flight can complete whatever the state of its siblings.
C7_ParallelFanOut ==
    \A i \in PassIds : \A e \in Ev(passes[i]) : \A g \in 1..Len(passes[i].groups) :
       \A k1, k2 \in MemberSet(passes[i], g) :
          /\ (passes[i].parallel /\ Called(passes[i], e, k1)) => Called(passes[i], e, k2)
          /\ (passes[i].parallel /\ passes[i].hs[e][k1] = "inflight" /\ e = passes[i].e)
                => ENABLED HookCompletes(i, k1)

\* parallel mode: the hooks of two members of one group are in flight at once
C7_Witness ==
    \E i \in PassIds : \E g \in 1..Len(passes[i].groups) :
        /\ passes[i].parallel
        /\ Len(Members(passes[i], g)) >= 2
        /\ passes[i].hs[passes[i].e][Members(passes[i], g)[1]] = "inflight"
        /\ passes[i].hs[passes[i].e][Members(passes[i], g)[2]] = "inflight"

\* notifyObserverGroup for (event e, group g) has returned or thrown
GroupDone(p, e, g) ==
    \/ Precedes(e, g, p.e, p.g)
    \/ (e = p.e /\ g = p.g /\ p.status # "running")

\* C8 as stated: in parallel mode a group is done only when the
\* notification of every member has completed or failed.
C8_GroupDoneAfterAllSettle ==
    \A i \in PassIds : \A e \in Ev(passes[i]) : \A g \in 1..Len(passes[i].groups) :
        (passes[i].parallel /\ GroupDone(passes[i], e, g))
            => \A k \in MemberSet(passes[i], g) :
                  passes[i].hs[e][k] \in {"done", "skipped", "failed", "unresolved"}

\* C8 amended: in parallel mode notifyObserverGroup resolves only when the
\* notification of every member has completed, and it rejects as soon as
\* one notification fails, whatever the state of the siblings: a running
\* pass has no failed member, a rejected pass has one in its current group.
C8_GroupResolvesAfterAllRejectsAtFirst ==
    \A i \in PassIds :
       /\ \A e \in Ev(passes[i]) : \A g \in 1..Len(passes[i].groups) :
             (/\ passes[i].parallel
              /\ \/ Precedes(e, g, passes[i].e, passes[i].g)
                 \/ (e = passes[i].e /\ g = passes[i].g /\ passes[i].status = "resolved"))
                => \A k \in MemberSet(passes[i], g) : passes[i].hs[e][k] \in Settled
       /\ (passes[i].parallel /\ passes[i].status = "running") => ~HasFailure(passes[i])
       /\ (passes[i].parallel /\ passes[i].status = "rejected")
             => \E k \in MemberSet(passes[i], passes[i].g) :
                   passes[i].hs[passes[i].e][k] \in {"failed", "unresolved"}

\* parallel mode: the pass is rejected by a failed hook while the hook of a
\* sibling is still in flight
C8_Witness ==
    \E i \in PassIds : \E k1, k2 \in Ks :
        /\ passes[i].parallel
        /\ GroupIdx(passes[i], k1) = GroupIdx(passes[i], k2)
        /\ passes[i].status = "rejected"
        /\ passes[i].hs[passes[i].e][k1] = "failed"
        /\ passes[i].hs[passes[i].e][k2] = "inflight"

C10_NoRollback ==
    /\ [](\A i \in PassIds : \A e \in Ev(passes[i]) : \A k \in Ks :
             (passes[i].kind = "start" /\ Invoked(passes[i], e, k))
                => passes[i].events[e] \in {"preStart", "start", "postStart"})
    /\ [][\A i \in PassIds : \A e \in Ev(passes[i]) : \A k \in Ks :
             (passes[i].kind = "start" /\ HasFailure(passes'[i]))
                => (/\ passes[i].hs[e][k] = "done" => passes'[i].hs[e][k] = "done"
                    /\ passes[i].hs[e][k] = "idle" => passes'[i].hs[e][k] = "idle"
                    /\ passes'[i].events = passes[i].events)]_vars

\* a rejected start pass: the start hook of one observer completed and
\* another observer was not notified of start
C10_Witness ==
    \E i \in PassIds : \E k1, k2 \in Ks :
        /\ passes[i].kind = "start"
        /\ passes[i].status = "rejected"
        /\ passes[i].hs[2][k1] = "done"
        /\ passes[i].hs[2][k2] = "idle"

(* ------------------------------- C11 ----------------------------------- *)

InLog(entry) == \E n \in 1..Len(events) : events[n] = entry

\* C11: an observer without the hook of a phase is skipped for it: its hook
\* is never invoked and nothing is recorded for it, a pass is rejected only
\* when a hook or a resolution really failed, and once the other members of
\* its group have settled the pass has moved on past that group and phase.
C11_MissingHookSkipped ==
    \A i \in PassIds :
        LET p == passes[i] IN
        /\ p.status = "rejected" => HasFailure(p)
        /\ \A e \in Ev(p) : \A k \in Ks :
              p.events[e] \notin bindings[k].hooks =>
                  /\ ~Invoked(p, e, k)
                  /\ bindings[k].name # "" => ~InLog(<<p.events[e], bindings[k].name>>)
                  /\ (/\ p.hs[e][k] = "skipped"
                      /\ p.status = "running"
                      /\ \A k2 \in MemberSet(p, GroupIdx(p, k)) : p.hs[e][k2] \in Settled)
                     => <<p.e, p.g>> # <<e, GroupIdx(p, k)>>

\* the server observer, which has only start and stop, was skipped for
\* preStart and postStart in a start() that resolved, after observer A had
\* all three hooks invoked
C11_Witness ==
    \E i \in PassIds : \E k, a \in Ks :
        /\ passes[i].kind = "start"
        /\ passes[i].status = "resolved"
        /\ bindings[k].name = "server"
        /\ bindings[a].name = "A"
        /\ passes[i].hs[1][k] = "skipped"
        /\ passes[i].hs[2][k] = "done"
        /\ passes[i].hs[3][k] = "skipped"
        /\ \A e \in 1..3 : passes[i].hs[e][a] = "done"
        /\ InLog(<<"start", "server">>)

(* --------------------- getObserverGroupsByOrder ------------------------ *)

\* the groups the call returned
G == returned.groups

\* the group's name occurs nowhere in the configured order
Absent(g) == \A i \in 1..Len(groupsByOrder) : groupsByOrder[i] # g.group

MemberIdx(g) == {g.bindings[m] : m \in 1..Len(g.bindings)}

\* the registration index of the first binding seen of the group
FirstSeen(g) == CHOOSE k \in MemberIdx(g) : \A k2 \in MemberIdx(g) : k <= k2

\* the position in the returned array of the group holding binding k
GroupOf(k) == CHOOSE a \in 1..Len(G) : k \in MemberIdx(G[a])

(* ------------------------------- C12 ----------------------------------- *)

\* C12 (as stated): every group absent from the configured order comes
\* after every group named in it, the absent groups in first-seen order.
C12_AbsentGroupsLast ==
    returned.called =>
        \A a, b \in 1..Len(G) :
            /\ (Absent(G[a]) /\ ~Absent(G[b])) => a > b
            /\ (Absent(G[a]) /\ Absent(G[b]) /\ a < b) => FirstSeen(G[a]) < FirstSeen(G[b])

\* C12 (amended): every group absent from the configured order comes
\* BEFORE every group named in it (indexOf gives -1 for it), the absent
\* groups in first-seen order among themselves.
C12_AbsentGroupsFirst ==
    returned.called =>
        \A a, b \in 1..Len(G) :
            /\ (Absent(G[a]) /\ ~Absent(G[b])) => a < b
            /\ (Absent(G[a]) /\ Absent(G[b]) /\ a < b) => FirstSeen(G[a]) < FirstSeen(G[b])

\* a configured group was seen first, then two absent groups; the call
\* returned the two absent groups and then the configured one
C12_Witness ==
    /\ returned.called
    /\ Len(G) = 3
    /\ Absent(G[1]) /\ Absent(G[2]) /\ ~Absent(G[3])
    /\ FirstSeen(G[3]) = 1

(* ------------------------------- C13 ----------------------------------- *)

\* the binding carries the `server` tag
ServerTagged(k) == "server" \in bindings[k].tags

\* C13 (as stated): with the default order every server-tagged binding is
\* in the final group, and the groups of all other bindings come before
\* that group in first-seen order.
C13_ServerTaggedLast ==
    (returned.called /\ groupsByOrder = DefaultGroupsByOrder) =>
        /\ \A k \in Ks : ServerTagged(k) => GroupOf(k) = Len(G)
        /\ \A k \in Ks : (~ServerTagged(k) /\ \E s \in Ks : ServerTagged(s)) =>
               GroupOf(k) < Len(G)
        /\ \A k1, k2 \in Ks :
               (~ServerTagged(k1) /\ ~ServerTagged(k2) /\ GroupOf(k1) < GroupOf(k2))
                   => FirstSeen(G[GroupOf(k1)]) < FirstSeen(G[GroupOf(k2)])

\* the binding has the explicit group tag `server`, or has no explicit
\* group tag and carries the `server` tag
ServerGrouped(k) ==
    \/ bindings[k].group = "server"
    \/ bindings[k].group = "" /\ ServerTagged(k)

\* C13 (amended): with the default order the bindings whose group is
\* `server` (explicit group tag `server`, or server-tagged without explicit
\* group tag) are in the final group, named server; every other binding,
\* server-tagged with another explicit group included, is in a group before
\* it, and those groups, '' included, are in first-seen order.
C13_ServerGroupLast ==
    (returned.called /\ groupsByOrder = DefaultGroupsByOrder) =>
        /\ \A k \in Ks : ServerGrouped(k) =>
               GroupOf(k) = Len(G) /\ G[Len(G)].group = "server"
        /\ \A k \in Ks : ~ServerGrouped(k) =>
               /\ G[GroupOf(k)].group # "server"
               /\ (\E s \in Ks : ServerGrouped(s)) => GroupOf(k) < Len(G)
        /\ \A a, b \in 1..Len(G) :
               (a < b /\ G[a].group # "server" /\ G[b].group # "server")
                   => FirstSeen(G[a]) < FirstSeen(G[b])

\* a server-tagged binding was registered first, then one with explicit
\* group g1 and an ungrouped one; the call returned g1, '', server
C13_Witness ==
    /\ returned.called
    /\ groupsByOrder = DefaultGroupsByOrder
    /\ Len(bindings) = 3
    /\ bindings[1].group = "" /\ ServerTagged(1)
    /\ Len(G) = 3
    /\ G[1].group = "g1" /\ G[2].group = "" /\ G[3].group = "server"
    /\ G[3].bindings = <<1>>

(* ------------------------------- C14 ----------------------------------- *)

\* C14: the groups named in the configured order are returned in ascending
\* order of their place in it, and the members of every group are in the
\* order in which the bindings were registered.
C14_ConfiguredAscendingMembersRegistered ==
    returned.called =>
        /\ \A a, b \in 1..Len(G) :
               (a < b /\ ~Absent(G[a]) /\ ~Absent(G[b])) =>
                   \E i, j \in 1..Len(groupsByOrder) :
                       /\ i < j
                       /\ groupsByOrder[i] = G[a].group
                       /\ groupsByOrder[j] = G[b].group
        /\ \A a \in 1..Len(G) : \A m, n \in 1..Len(G[a].bindings) :
               m < n => G[a].bindings[m] < G[a].bindings[n]

\* order [g1, g2] with bindings tagged g1, g2, g1 gave
\* [g1: (1st, 3rd), g2: (2nd)]
C14_Witness ==
    /\ returned.called
    /\ groupsByOrder = <<"g1", "g2">>
    /\ Len(bindings) = 3
    /\ bindings[1].group = "g1" /\ bindings[2].group = "g2" /\ bindings[3].group = "g1"
    /\ G = << [group |-> "g1", bindings |-> <<1, 3>>],
              [group |-> "g2", bindings |-> <<2>>] >>

(* ------------------------------- C15 ----------------------------------- *)

\* C15: the returned groups partition the bindings: every binding occurs
\* at exactly one place of exactly one group, every member is a binding,
\* no group is empty and no two groups have the same name.
C15_GroupsPartitionBindings ==
    returned.called =>
        /\ \A k \in Ks :
               Cardinality({<<a, m>> \in (1..Len(G)) \X (1..Len(bindings)) :
                               m <= Len(G[a].bindings) /\ G[a].bindings[m] = k}) = 1
        /\ \A a \in 1..Len(G) :
               /\ Len(G[a].bindings) > 0
               /\ MemberIdx(G[a]) \subseteq Ks
        /\ \A a, b \in 1..Len(G) : a # b => G[a].group # G[b].group

\* three bindings were returned in two groups, one of them of two members
C15_Witness ==
    /\ returned.called
    /\ Len(bindings) = 3
    /\ Len(G) = 2
    /\ \E a \in 1..2 : Len(G[a].bindings) = 2

(* ------------------------------- C16 ----------------------------------- *)

\* C16: every binding is returned in the group named by its explicit group
\* tag when it has one; otherwise in the group of the first name of the
\* configured order that it carries as a tag; otherwise in group ''.  A
\* server-tagged binding without explicit group is in group server exactly
\* when server is in the configured order.
C16_GroupOfBinding ==
    returned.called =>
        \A k \in Ks :
            LET b == bindings[k]
                n == G[GroupOf(k)].group
                matches == {i \in 1..Len(groupsByOrder) : groupsByOrder[i] \in b.tags}
            IN /\ b.group # "" => n = b.group
               /\ (b.group = "" /\ matches # {}) =>
                      \E i \in matches : n = groupsByOrder[i] /\ \A j \in matches : i <= j
               /\ (b.group = "" /\ matches = {}) => n = ""
               /\ (b.group = "" /\ b.tags = {"server"}) =>
                      (n = "server" <=> \E i \in 1..Len(groupsByOrder) : groupsByOrder[i] = "server")

\* under order [server, g1]: a binding carrying the tags g1 and server is in
\* group server, a server-tagged binding with explicit group g2 is in g2
C16_Witness ==
    /\ returned.called
    /\ groupsByOrder = <<"server", "g1">>
    /\ \E k1, k2 \in Ks :
          /\ bindings[k1].group = "" /\ bindings[k1].tags = {"g1", "server"}
          /\ G[GroupOf(k1)].group = "server"
          /\ bindings[k2].group = "g2" /\ ServerTagged(k2)
          /\ G[GroupOf(k2)].group = "g2"

(* ------------------------------- C17 ----------------------------------- *)

\* the groups of the order now in effect, in the direction of pass p
InEffect(p) ==
    LET S == sortObserverBindingsByGroup(bindings, groupsByOrder)
    IN IF p.kind = "start" THEN S ELSE [a \in 1..Len(S) |-> S[Len(S) + 1 - a]]

\* C17: a pending start() or stop() notifies the groups in the order that
\* was in effect when it was invoked (the order cannot change while the
\* caller awaits the pass): no member of a group is notified of a phase
\* before every member of the groups that the order now in effect puts
\* before it has settled that phase, whatever order was configured before.
C17_PassUsesOrderInEffect ==
    \A i \in PassIds :
        passes[i].status = "running" =>
            LET p == passes[i]
                S == InEffect(p)
            IN \A a, b \in 1..Len(S) :
                  a < b =>
                     \A e \in Ev(p) : \A k2 \in MemberIdx(S[b]) :
                        Called(p, e, k2) =>
                            \A k1 \in MemberIdx(S[a]) : p.hs[e][k1] \in Settled

\* a start() resolved under one order, setGroupsByOrder changed the order
\* of the groups, and the next start() has reached its last group
C17_Witness ==
    /\ Len(passes) = 2
    /\ passes[1].kind = "start" /\ passes[2].kind = "start"
    /\ passes[1].status = "resolved" /\ passes[2].status = "running"
    /\ Len(passes[2].groups) = 3
    /\ passes[1].groups # passes[2].groups
    /\ passes[2].groups = InEffect(passes[2])
    /\ \E k \in MemberIdx(passes[2].groups[3]) : Called(passes[2], 1, k)

(* ------------------------------- C18 ----------------------------------- *)

\* C18 (as stated): within one pass every binding is resolved from the
\* context at most once: at most one event of the pass has a notifyObserver
\* call, which begins with ctx.get, for the binding.
C18_ResolvedOncePerPass ==
    \A i \in PassIds : \A k \in Ks :
        Cardinality({e \in Ev(passes[i]) : Called(passes[i], e, k)}) <= 1

\* C18 (amended): within one pass a binding is resolved at most once for
\* each phase: a resolution for (event, binding) begins only when there
\* was none for that pair before; and every pass that resolved, a later
\* one too, made a resolution of its own of every binding for each of its
\* three events.
C18_ResolvedOncePerPhase ==
    /\ [][\A i \in PassIds : \A e \in Ev(passes[i]) : \A k \in Ks :
             (passes'[i].hs[e][k] = "resolving" /\ passes[i].hs[e][k] # "resolving")
                 => passes[i].hs[e][k] = "idle"]_vars
    /\ [](\A i \in PassIds :
             passes[i].status = "resolved" =>
                 \A e \in Ev(passes[i]) : \A k \in Ks : Called(passes[i], e, k))

\* two passes resolved, and observer A was resolved for each of the three
\* events of each of them
C18_Witness ==
    /\ Len(passes) = 2
    /\ passes[1].status = "resolved" /\ passes[2].status = "resolved"
    /\ \E k \in Ks :
          /\ bindings[k].name = "A"
          /\ \A i \in 1..2 : \A e \in 1..3 : passes[i].hs[e][k] = "done"

(* ------------------------------- C19 ----------------------------------- *)

\* the number of entries `${ev}-${name}` of the events array
Logged(ev, name) == Cardinality({n \in 1..Len(events) : events[n] = <<ev, name>>})

\* C19: whatever calls came before it, a pass has the three events of its
\* kind and covers every registered binding; when it resolved, every
\* binding had each of those hooks that it implements completed; and every
\* hook of a recording observer is in the events array once for every pass
\* that invoked it, so once more for a second start() and also for a
\* stop() that no start() preceded.
C19_NoStartedState ==
    /\ \A i \in PassIds :
          LET p == passes[i] IN
          /\ p.events = IF p.kind = "start" THEN StartEvents ELSE StopEvents
          /\ \A k \in Ks : \E g \in 1..Len(p.groups) : k \in MemberSet(p, g)
          /\ p.status = "resolved" =>
                \A e \in Ev(p) : \A k \in Ks :
                    p.hs[e][k] = IF p.events[e] \in bindings[k].hooks THEN "done" ELSE "skipped"
    /\ \A k \in Ks : \A ev \in bindings[k].hooks :
          bindings[k].name # "" =>
              Logged(ev, bindings[k].name) =
                  Cardinality({i \in PassIds :
                      \E e \in Ev(passes[i]) :
                          passes[i].events[e] = ev /\ Invoked(passes[i], e, k)})

\* a stop() with no start() before it resolved and then a second stop()
\* resolved: observer A has its stop hook twice in the events array
C19_Witness ==
    /\ Len(passes) = 2
    /\ passes[1].kind = "stop" /\ passes[2].kind = "stop"
    /\ passes[1].status = "resolved" /\ passes[2].status = "resolved"
    /\ Logged("stop", "A") = 2

\* a start() resolved and a second start() resolved: observer A has its
\* start hook twice in the events array
C19_WitnessSecondStart ==
    /\ Len(passes) = 2
    /\ passes[1].kind = "start" /\ passes[2].kind = "start"
    /\ passes[1].status = "resolved" /\ passes[2].status = "resolved"
    /\ Logged("start", "A") = 2

(* ------------------------------- C20 ----------------------------------- *)

\* pass p was rejected by the failure to resolve a binding
RejectedByResolution(p) ==
    /\ p.status = "rejected"
    /\ \E k \in Ks : p.error = <<"resolve", k>>

\* a resolution failure in a pending pass rejects the pass with it
ResolutionFailureRejects ==
    [][\A i \in PassIds : \A k \in Ks :
          (/\ passes[i].status = "running"
           /\ passes[i].hs[passes[i].e][k] # "unresolved"
           /\ passes'[i].hs[passes[i].e][k] = "unresolved")
          => (passes'[i].status = "rejected" /\ passes'[i].error = <<"resolve", k>>)]_vars

\* after a rejection no binding of a later group, and none for a later
\* event, has a notifyObserver call
NothingLaterNotified ==
    [](\A i \in PassIds :
          LET p == passes[i] IN
          RejectedByResolution(p) =>
              \A e \in Ev(p) : \A k \in Ks :
                  (e > p.e \/ (e = p.e /\ GroupIdx(p, k) > p.g)) => p.hs[e][k] = "idle")

\* C20 (as stated): a resolution failure rejects the pass with it, from
\* then on no hook is invoked in that pass (the remaining members of the
\* group are not notified of the phase), and no later group or phase is
\* notified.
C20_ResolutionFailureAbortsGroup ==
    /\ ResolutionFailureRejects
    /\ NothingLaterNotified
    /\ [][\A i \in PassIds :
             RejectedByResolution(passes[i]) =>
                 \A e \in Ev(passes[i]) : \A k \in Ks :
                     Invoked(passes'[i], e, k) => Invoked(passes[i], e, k)]_vars

\* C20 (amended): a resolution failure rejects the pass with it and no
\* later group or phase is notified; in serial mode no hook is invoked in
\* that pass from then on, in parallel mode the only hooks still invoked
\* are those of the other members of the same group for the same event,
\* whose notification had begun before the failure.
C20_ResolutionFailureAbortsLater ==
    /\ ResolutionFailureRejects
    /\ NothingLaterNotified
    /\ [][\A i \in PassIds :
             RejectedByResolution(passes[i]) =>
                 \A e \in Ev(passes[i]) : \A k \in Ks :
                     (Invoked(passes'[i], e, k) /\ ~Invoked(passes[i], e, k)) =>
                         /\ passes[i].parallel
                         /\ e = passes[i].e
                         /\ k \in MemberSet(passes[i], passes[i].g)
                         /\ passes[i].hs[e][k] = "resolving"]_vars

\* in parallel mode the pass was rejected by the failure to resolve one
\* member while the hook of another member of the group is in flight and
\* a later group waits
C20_Witness ==
    \E i \in PassIds : \E k, k2 \in Ks :
        LET p == passes[i] IN
        /\ p.parallel
        /\ p.status = "rejected"
        /\ p.error = <<"resolve", k>>
        /\ p.hs[p.e][k] = "unresolved"
        /\ k2 # k
        /\ GroupIdx(p, k2) = GroupIdx(p, k)
        /\ p.hs[p.e][k2] = "inflight"
        /\ p.g < Len(p.groups)

(* ------------------------------- C21 ----------------------------------- *)

\* C21: in the example of the documentation a start() that resolved has
\* produced exactly the trace preStart-mysql, preStart-mongo,
\* preStart-rest, start-mysql, start-mongo, start-rest, postStart-mysql,
\* postStart-mongo, postStart-rest.
C21_DocStartTrace ==
    (Len(passes) = 1 /\ passes[1].kind = "start" /\ passes[1].status = "resolved") =>
        events = << <<"preStart", "mysql">>, <<"preStart", "mongo">>, <<"preStart", "rest">>,
                    <<"start", "mysql">>, <<"start", "mongo">>, <<"start", "rest">>,
                    <<"postStart", "mysql">>, <<"postStart", "mongo">>, <<"postStart", "rest">> >>

(* ------------------------------- C22 ----------------------------------- *)

C23_SettlesIffHooksSettle ==
    /\ (passes # <<>>) ~> (passes # <<>> /\ passes[1].status # "running")
    /\ [](\A i \in PassIds : \A e \in Ev(passes[i]) : \A k \in Ks :
             passes[i].hs[e][k] = "inflight" =>
                 /\ passes[i].status # "resolved"
                 /\ \A e2 \in Ev(passes[i]) : \A k2 \in Ks :
                       Precedes(e, GroupIdx(passes[i], k), e2, GroupIdx(passes[i], k2))
                           => passes[i].hs[e2][k2] = "idle")
    /\ [][\A i \in PassIds : \A e \in Ev(passes[i]) : \A k \in Ks :
             (passes[i].hs[e][k] = "inflight" /\ passes'[i].hs[e][k] # "inflight")
                 => passes'[i].hs[e][k] \in {"done", "failed"}]_vars

\* the hook of a member of the first group is in flight in the first
\* phase of a pass in serial mode, and two more bindings wait
C23_Witness ==
    /\ Len(passes) = 1
    /\ ~passes[1].parallel
    /\ passes[1].status = "running"
    /\ passes[1].e = 1 /\ passes[1].g = 1
    /\ Len(bindings) = 3
    /\ \E k \in Ks : passes[1].hs[1][k] = "inflight"
    /\ Cardinality({k \in Ks : passes[1].hs[1][k] = "idle"}) = 2

(* ------------------------------- C30 ----------------------------------- *)

\* the place of binding k in its group of pass p
MemberPos(p, k) ==
    CHOOSE m \in 1..Len(Members(p, GroupIdx(p, k))) : Members(p, GroupIdx(p, k))[m] = k

\* C30: in serial mode, when the hook of a member has failed the members
\* that follow it in its group are not notified of that phase, and a hook
\* is invoked once: it is invoked only by a notification that had not
\* invoked it, and once it completed or failed it stays so.
C30_SerialFailureStopsGroup ==
    /\ [](\A i \in PassIds : \A e \in Ev(passes[i]) : \A k, k2 \in Ks :
             (/\ ~passes[i].parallel
              /\ passes[i].hs[e][k] = "failed"
              /\ GroupIdx(passes[i], k2) = GroupIdx(passes[i], k)
              /\ MemberPos(passes[i], k2) > MemberPos(passes[i], k))
                 => passes[i].hs[e][k2] = "idle")
    /\ [][\A i \in PassIds : \A e \in Ev(passes[i]) : \A k \in Ks :
             ~passes[i].parallel =>
                 /\ (passes'[i].hs[e][k] = "inflight" /\ passes[i].hs[e][k] # "inflight")
                        => passes[i].hs[e][k] = "resolving"
                 /\ passes[i].hs[e][k] \in {"done", "failed"}
                        => passes'[i].hs[e][k] = passes[i].hs[e][k]]_vars

\* serial mode, a group of three: the hook of the first member completed,
\* that of the second failed, the third was not notified
C30_Witness ==
    \E i \in PassIds : \E g \in 1..Len(passes[i].groups) :
        LET p == passes[i] IN
        /\ ~p.parallel
        /\ p.status = "rejected"
        /\ Len(Members(p, g)) = 3
        /\ p.hs[p.e][Members(p, g)[1]] = "done"
        /\ p.hs[p.e][Members(p, g)[2]] = "failed"
        /\ p.hs[p.e][Members(p, g)[3]] = "idle"

(* ------------------------------- C29 ----------------------------------- *)

\* C29: with F the flat sorted array of the bindings, a start() of
\* ContextWithLifeCycle notifies a binding of a phase only when every
\* binding before it in F has settled that phase, and a stop() only when
\* every binding AFTER it in F has settled it: the exact reverse, the
\* members of one group included, one observer at a time.
C29_StopReversesFlatOrder ==
    \A i \in PassIds :
        LET p == passes[i]
            F == findLifeCycleObserverBindings
        IN \A a, b \in 1..Len(F) :
              a < b =>
                 \A e \in Ev(p) :
                    /\ (p.kind = "start" /\ Called(p, e, F[b])) => p.hs[e][F[a]] \in Settled
                    /\ (p.kind = "stop" /\ Called(p, e, F[a])) => p.hs[e][F[b]] \in Settled

\* in a stop() the hook of the binding registered first of a group is in
\* flight after the binding registered second in the same group has
\* settled the phase
C29_Witness ==
    \E i \in PassIds : \E k1, k2 \in Ks :
        /\ passes[i].kind = "stop"
        /\ k1 < k2
        /\ bindings[k1].group = "g1" /\ bindings[k2].group = "g1"
        /\ passes[i].hs[passes[i].e][k2] = "done"
        /\ passes[i].hs[passes[i].e][k1] = "inflight"

(* ------------------------------- Phase --------------------------------- *)
\* position in the log `called` of the entry that handler h pushed when it
\* was called (d = FALSE) or when it completed (d = TRUE); 0 if none
PhasePos(h, d) ==
    IF \E j \in 1..Len(called) : called[j] = [name |-> h, done |-> d]
    THEN CHOOSE j \in 1..Len(called) : called[j] = [name |-> h, done |-> d]
    ELSE 0

\* the handlers registered in the Phase, with their stage
StageOfHandler(h) == CHOOSE s \in 1..3 : Stages[s] = h[1]

Registered ==
    {phase.beforeHandlers[j] : j \in 1..Len(phase.beforeHandlers)}
        \cup {phase.handlers[j] : j \in 1..Len(phase.handlers)}
        \cup {phase.afterHandlers[j] : j \in 1..Len(phase.afterHandlers)}

\* the log of the tests when every stage has two handlers
FullTrace(parallel) ==
    LET st(h) == [name |-> h, done |-> FALSE]
        dn(h) == [name |-> h, done |-> TRUE]
        stage(s) == IF parallel
                    THEN <<st(<<s, 1>>), st(<<s, 2>>), dn(<<s, 1>>), dn(<<s, 2>>)>>
                    ELSE <<st(<<s, 1>>), dn(<<s, 1>>), st(<<s, 2>>), dn(<<s, 2>>)>>
    IN stage("before") \o stage("use") \o stage("after")

\* C24: in serial and in parallel mode, a handler of a stage is called only
\* after every registered handler of the stages before it has completed,
\* whatever the order of the before(), use() and after() calls
C24_StagesStrictlyOrdered ==
    \A h \in Registered : \A g \in Registered :
        (PhasePos(h, FALSE) > 0 /\ StageOfHandler(g) < StageOfHandler(h))
            => (PhasePos(g, TRUE) > 0 /\ PhasePos(g, TRUE) < PhasePos(h, FALSE))

\* an after handler registered first of all has been called after the
\* handlers of the two other stages completed, in parallel mode
C24_Witness ==
    /\ IsParallel(phase)
    /\ registered = <<"after", "use", "before">>
    /\ Len(phase.beforeHandlers) > 1 /\ Len(phase.handlers) > 1
    /\ PhasePos(<<"after", 1>>, FALSE) > 0
    /\ phase.status = "running"

\* C25: unless options.parallel is set, the handlers of a stage run one
\* after the other in registration order, and the run of two handlers per
\* stage leaves the log b1, b1_done, b2, b2_done, h1, ..., a2, a2_done
C25_SerialByDefault ==
    (phase.options.parallel = "undefined") =>
        /\ \A h \in Registered :
             (h[2] > 1 /\ PhasePos(h, FALSE) > 0) =>
                 /\ PhasePos(<<h[1], h[2] - 1>>, TRUE) > 0
                 /\ PhasePos(<<h[1], h[2] - 1>>, TRUE) < PhasePos(h, FALSE)
        /\ (/\ phase.status = "resolved"
            /\ Len(phase.beforeHandlers) = 2
            /\ Len(phase.handlers) = 2
            /\ Len(phase.afterHandlers) = 2) => called = FullTrace(FALSE)

C25_Witness ==
    /\ phase.options.parallel = "undefined"
    /\ phase.status = "resolved"
    /\ called = FullTrace(FALSE)

\* C26: with options.parallel true, the handlers of a stage are all called,
\* in registration order, before any of them completes, and the run goes
\* past the stage (to the next stage or to its resolution) only when all
\* of them have completed
C26_ParallelStage ==
    IsParallel(phase) =>
        /\ \A h \in Registered : \A g \in Registered :
             (h[1] = g[1] /\ PhasePos(g, TRUE) > 0) =>
                 /\ PhasePos(h, FALSE) > 0
                 /\ PhasePos(h, FALSE) < PhasePos(g, TRUE)
        /\ \A h \in Registered : \A g \in Registered :
             (h[1] = g[1] /\ h[2] < g[2] /\ PhasePos(g, FALSE) > 0) =>
                 /\ PhasePos(h, FALSE) > 0
                 /\ PhasePos(h, FALSE) < PhasePos(g, FALSE)
        /\ \A g \in Registered :
             (phase.status = "resolved" \/ (phase.status = "running"
                                            /\ phase.stage > StageOfHandler(g)))
                 => phase.hs[g] = "done"

\* the log of the test: the handlers complete in the order of their calls
C26_Witness ==
    /\ IsParallel(phase)
    /\ phase.status = "resolved"
    /\ called = FullTrace(TRUE)

AppServers ==
    {b.key : b \in {c \in app.bindings : c.namespace = "servers" \/ "server" \in c.tags}}

\* method m was called on server k since the last call and has completed
ServerCompleted(k, m) ==
    \E j \in 1..Len(appLog) :
        appLog[j] = [key |-> k, observer |-> 0, method |-> m, done |-> TRUE]

\* C28: when start() has resolved, start() has completed on every server
\* bound under servers. or tagged server, and when stop() has resolved,
\* stop() has completed on every such server
C28_AllServersCompleted ==
    app.status = "resolved" => \A k \in AppServers : ServerCompleted(k, app.op)

\* stop() resolved, after a start(), with a server found by its tag only,
\* one found by its key only, and the poorly named binding
C28_Witness ==
    /\ app.status = "resolved" /\ app.op = "stop" /\ app.ncalls = 2
    /\ {"servers.raw", "fake-server", "servers.RestServer"} \subseteq AppServers
    /\ \E b \in app.bindings : b.key = "controllers.servers"
    /\ \A k \in AppServers : ServerCompleted(k, "stop")

\* position in appLog of the call (d = FALSE) or of the completion
\* (d = TRUE) of the current method on observer o of binding k; 0 if none
AppPos(k, o, d) ==
    LET e == [key |-> k, observer |-> o, method |-> app.op, done |-> d]
    IN IF \E j \in 1..Len(appLog) : appLog[j] = e
       THEN CHOOSE j \in 1..Len(appLog) : appLog[j] = e
       ELSE 0

\* the components of the application that declare lifeCycleObservers
AppComponents ==
    {b.key : b \in {c \in app.bindings :
        (c.namespace = "components" \/ "component" \in c.tags)
            /\ ComponentObservers(c.key).defined}}

\* the array a component declares
Declared(k) == ComponentObservers(k).list

\* x is in the log and y is not, or is later
AppBefore(x, y) == x > 0 /\ (y = 0 \/ x < y)

\* start() calls no server before every observer of every component
\* completed its start
ComponentsBeforeServers ==
    app.op = "start" =>
        \A s \in AppServers : \A k \in AppComponents : \A n \in 1..Len(Declared(k)) :
            AppPos(s, 0, FALSE) > 0 =>
                AppBefore(AppPos(k, Declared(k)[n], TRUE), AppPos(s, 0, FALSE))

\* stop() calls no observer of a component before every server completed
\* its stop
ServersBeforeComponents ==
    app.op = "stop" =>
        \A s \in AppServers : \A k \in AppComponents : \A n \in 1..Len(Declared(k)) :
            AppPos(k, Declared(k)[n], FALSE) > 0 =>
                AppBefore(AppPos(s, 0, TRUE), AppPos(k, Declared(k)[n], FALSE))

\* the observers of a component are started one after the other in the
\* order of the declared array
StartedInArrayOrder ==
    app.op = "start" =>
        \A k \in AppComponents : \A n \in 1..(Len(Declared(k)) - 1) :
            AppPos(k, Declared(k)[n + 1], FALSE) > 0 =>
                AppBefore(AppPos(k, Declared(k)[n], TRUE),
                          AppPos(k, Declared(k)[n + 1], FALSE))

\* the observers of a component are stopped one after the other in the
\* reverse of the order of the declared array
StoppedInReverseOrder ==
    app.op = "stop" =>
        \A k \in AppComponents : \A n \in 1..(Len(Declared(k)) - 1) :
            AppPos(k, Declared(k)[n], FALSE) > 0 =>
                AppBefore(AppPos(k, Declared(k)[n + 1], TRUE),
                          AppPos(k, Declared(k)[n], FALSE))

\* C31: start() starts no server before the observers of every component
\* have completed their start, stop() stops no observer of a component
\* before every server has completed its stop, and the observers of one
\* component are started one by one in array order and stopped one by one
\* in the reverse of that order
C31_ComponentsAndServersOrdered ==
    /\ ComponentsBeforeServers
    /\ ServersBeforeComponents
    /\ StartedInArrayOrder
    /\ StoppedInReverseOrder

\* the order between the servers and the components, which every call
\* keeps
C31_StagesOrdered == ComponentsBeforeServers /\ ServersBeforeComponents

\* the first call of start() or stop() keeps the order inside a component
C31_FirstCallOrdered ==
    app.ncalls = 1 => (StartedInArrayOrder /\ StoppedInReverseOrder)

(* ------------------------------ PhaseList ------------------------------ *)
\* the step is a call of one of the methods ops on the list
ListStep(ops) == listCall'.n = listCall.n + 1 /\ listCall'.op \in ops

\* seq without its j-th element
Without(seq, j) == SubSeq(seq, 1, j - 1) \o SubSeq(seq, j + 1, Len(seq))

InList(pl, id) == \E j \in 1..Len(pl.phases) : pl.phases[j].id = id

\* C32: addAfter(ref, p) puts p right after the phase ref and
\* addBefore(ref, p) right before it, the other phases keeping their
\* order; when no phase of the list is named ref both throw Unknown phase
\* and the list and the map are as before
C32_AddAfterAddBefore ==
    [][ListStep({"addAfter", "addBefore"}) =>
          IF ~InList(phaseList, listCall'.ref)
          THEN listCall'.outcome = "Unknown phase" /\ phaseList' = phaseList
          ELSE listCall'.outcome = "returned" =>
                 \E j \in 1..Len(phaseList'.phases) :
                    /\ phaseList'.phases[j].id = listCall'.args[1].id
                    /\ listCall'.value = <<phaseList'.phases[j]>>
                    /\ Without(phaseList'.phases, j) = phaseList.phases
                    /\ IF listCall'.op = "addAfter"
                       THEN j > 1 /\ phaseList'.phases[j - 1].id = listCall'.ref
                       ELSE /\ j < Len(phaseList'.phases)
                            /\ phaseList'.phases[j + 1].id = listCall'.ref]_vars

\* addAfter has put a phase between the two phases of the list
C32_Witness ==
    /\ listCall.op = "addAfter" /\ listCall.outcome = "returned"
    /\ Len(phaseList.phases) = 3
    /\ phaseList.phases[1].id = listCall.ref
    /\ listCall.value = <<phaseList.phases[2]>>

\* the call is given a phase whose id a phase of the list has
GivenDuplicate ==
    /\ \E n \in 1..Len(listCall'.args) : InList(phaseList, listCall'.args[n].id)
    /\ listCall'.op \in {"addAfter", "addBefore"} => InList(phaseList, listCall'.ref)

\* C33: add, addAt, addAfter and addBefore given a phase whose id is
\* already in the list throw Phase already exists and leave the list and
\* the map as they were, also when add is given several phases and a later
\* one is the duplicate
C33_DuplicateLeavesListUnchanged ==
    [][(ListStep({"add", "addAt", "addAfter", "addBefore"}) /\ GivenDuplicate) =>
          /\ listCall'.outcome = "Phase already exists"
          /\ phaseList' = phaseList]_vars

\* a call that throws after resolving a single phase changes nothing
C33_SinglePhaseCallsUnchanged ==
    [][(/\ ListStep({"add", "addAt", "addAfter", "addBefore"})
        /\ Len(listCall'.args) = 1
        /\ listCall'.outcome # "returned") => phaseList' = phaseList]_vars

\* the positions in the list of the phase that x designates: the phase of
\* that name, or that Phase object
Designated(pl, x) ==
    {j \in 1..Len(pl.phases) :
        IF x.oid = 0 THEN pl.phases[j].id = x.id ELSE pl.phases[j] = x}

\* C34: remove(x) takes out of the list the phase that x designates, and
\* no other, returns it and keeps the order of the others; when x
\* designates no phase of the list, nothing is removed from the list
C34_RemoveExactlyDesignated ==
    [][ListStep({"remove"}) =>
          LET D == Designated(phaseList, listCall'.args[1])
          IN IF D = {} THEN phaseList'.phases = phaseList.phases
             ELSE \E j \in D :
                    /\ phaseList'.phases = Without(phaseList.phases, j)
                    /\ listCall'.value = <<phaseList.phases[j]>>]_vars

\* remove given a name, or a Phase object that is in the list, while the
\* list and the map hold the same phases
C34_RemoveOfListedPhase ==
    [][(/\ ListStep({"remove"})
        /\ \A i \in PhaseIds : \A j \in 1..Len(phaseList.phases) :
               phaseList.phases[j].id = i => phaseList.phaseMap[i] = phaseList.phases[j]
        /\ \A i \in PhaseIds :
               phaseList.phaseMap[i] # NoPhaseObject => InList(phaseList, i)
        /\ (listCall'.args[1].oid = 0
               \/ Designated(phaseList, listCall'.args[1]) # {}))
          => LET D == Designated(phaseList, listCall'.args[1])
             IN IF D = {} THEN phaseList' = phaseList /\ listCall'.value = <<>>
                ELSE \E j \in D :
                       /\ phaseList'.phases = Without(phaseList.phases, j)
                       /\ listCall'.value = <<phaseList.phases[j]>>]_vars

(* ---------------------- hooks invoked by one pass ---------------------- *)
\* the hooks that the observers implement among the events of pass i
PassHooks(i) ==
    {<<passes[i].events[x[1]], bindings[x[2]].name>> :
        x \in {y \in Ev(passes[i]) \X Ks :
                  passes[i].events[y[1]] \in bindings[y[2]].hooks}}

RECURSIVE LogOffset(_)
\* the length of the log when pass i was invoked: the passes before it had
\* resolved
LogOffset(i) ==
    IF i = 1 THEN 0 ELSE LogOffset(i - 1) + Cardinality(PassHooks(i - 1))

\* the part of the log that pass i wrote
PassLog(i) ==
    IF i < Len(passes)
    THEN SubSeq(events, LogOffset(i) + 1, LogOffset(i + 1))
    ELSE SubSeq(events, LogOffset(i) + 1, Len(events))

\* the number of times an entry is in a log
TimesIn(log, entry) == Cardinality({n \in 1..Len(log) : log[n] = entry})

PosIn(log, entry) == CHOOSE n \in 1..Len(log) : log[n] = entry

\* C36: in a pass in which nothing failed, each observer has the hooks it
\* implements among preStart, start, postStart (start()) or preStop, stop,
\* postStop (stop()) invoked once each and in that order, and no other hook
\* of it is invoked
C36_EachHookOnceInOrder ==
    \A i \in PassIds :
        passes[i].status # "rejected" =>
            LET log == PassLog(i) IN
            /\ \A n \in 1..Len(log) : log[n] \in PassHooks(i)
            /\ \A h \in PassHooks(i) :
                   TimesIn(log, h) = (IF passes[i].status = "resolved" THEN 1
                                     ELSE IF TimesIn(log, h) = 0 THEN 0 ELSE 1)
            /\ \A e1 \in Ev(passes[i]) : \A e2 \in Ev(passes[i]) : \A k \in Ks :
                   LET h1 == <<passes[i].events[e1], bindings[k].name>>
                       h2 == <<passes[i].events[e2], bindings[k].name>>
                   IN (e1 < e2 /\ h1 \in PassHooks(i) /\ TimesIn(log, h2) > 0)
                         => (TimesIn(log, h1) > 0 /\ PosIn(log, h1) < PosIn(log, h2))
            /\ passes[i].events = (IF passes[i].kind = "start" THEN StartEvents
                                   ELSE StopEvents)

\* a start() and then a stop() resolved with the three observers: the six
\* hooks of A and of B and the two of the server were invoked
C36_Witness ==
    /\ Len(passes) = 2 /\ Len(bindings) = 3
    /\ passes[1].kind = "start" /\ passes[2].kind = "stop"
    /\ passes[2].status = "resolved"
    /\ Len(events) = 14

(* -------------------- changes while a pass is in flight ---------------- *)
\* the observers that recorded both events e1 and e2
BothLogged(a, b, e1, e2) ==
    /\ InLog(<<e1, a>>) /\ InLog(<<e1, b>>)
    /\ InLog(<<e2, a>>) /\ InLog(<<e2, b>>)

\* no observer bound during the pass recorded a hook
LateNeverNotified == \A n \in 1..Len(events) : events[n][2] # "late"

\* two observers are notified in the same order in every phase
SameGroupOrderInAllPhases ==
    \A a \in {"A", "B", "server"} : \A b \in {"A", "B", "server"} :
        \A e1 \in lifeCycleMethods : \A e2 \in lifeCycleMethods :
            BothLogged(a, b, e1, e2) =>
                ((PosIn(events, <<e1, a>>) < PosIn(events, <<e1, b>>))
                   <=> (PosIn(events, <<e2, a>>) < PosIn(events, <<e2, b>>)))

\* C35: what a pass notifies is fixed when it is invoked: an observer
\* bound while it is in flight is not notified by it, and the order of the
\* groups is the same in all its phases whatever setGroupsByOrder is
\* called meanwhile (the pass keeps the groups it computed)
C35_PassFixedAtInvocation ==
    /\ []LateNeverNotified
    /\ []SameGroupOrderInAllPhases
    /\ [][\A i \in 1..Len(passes) : passes'[i].groups = passes[i].groups]_vars

\* a pass resolved after an observer was bound and the order configured
\* while it was in flight: the registry now sorts the observers that the
\* pass notified in another order than the pass followed
C35_Witness ==
    /\ Len(passes) = 1 /\ passes[1].status = "resolved" /\ passes[1].kind = "start"
    /\ \E k \in 1..Len(bindings) : bindings[k].name = "late"
    /\ InLog(<<"postStart", "A">>) /\ InLog(<<"postStart", "B">>)
    /\ sortObserverBindingsByGroup(SubSeq(bindings, 1, Len(bindings) - 1), groupsByOrder)
           # passes[1].groups
    /\ Len(bindings) > 2 /\ bindings[Len(bindings)].name = "late"

(* --------------------------- overlapping passes ------------------------ *)
\* the step invokes a pass while a start() pass is in flight
InvokedInFlight ==
    /\ Len(passes') = Len(passes) + 1
    /\ \E i \in PassIds : passes[i].kind = "start" /\ passes[i].status = "running"

\* C37: a stop() invoked while a start() pass is in flight is not held
\* back: its pass notifies its first group at once and leaves the start()
\* pass as it is, so that an observer can get a stop-phase hook before the
\* start() pass has invoked its postStart
C37_StopNotHeldBack ==
    [][InvokedInFlight =>
          LET p == passes'[Len(passes')] IN
          /\ p.kind = "stop" /\ p.status = "running"
          /\ \E k \in Ks : p.hs[1][k] = "resolving"
          /\ \A i \in PassIds : passes'[i] = passes[i]]_vars

\* an observer with the six hooks has its preStop invoked by the stop()
\* pass while the start() pass, still in flight, has not invoked its
\* postStart
C37_Witness ==
    /\ Len(passes) = 2
    /\ passes[1].kind = "start" /\ passes[1].status = "running"
    /\ passes[2].kind = "stop"
    /\ \E k \in Ks :
          /\ bindings[k].hooks = lifeCycleMethods
          /\ passes[2].hs[1][k] \in {"inflight", "done"}
          /\ passes[1].hs[3][k] \in {"idle", "resolving"}

====
